---- MODULE Spec2Model ----
(***************************************************************************)
(* Model of the fund relay of src/mixer.ts: initiateMixing (plan, fund the *)
(* pools, shuffle, withdraw through peel accounts, cleanup), its helpers   *)
(* sendSol and sweepWallet, and the process entry point main.              *)
(*                                                                         *)
(* Amounts are lamports.  The code carries amounts as SOL in IEEE doubles  *)
(* and converts back with Math.floor / Math.ceil; FloorLamports and        *)
(* CeilLamports compute that round trip bit-exactly for 0 <= n < 2^30.     *)
(* Time is milliseconds.  The ledger charges the flat fee to the sender.   *)
(***************************************************************************)
EXTENDS Integers, Sequences, FiniteSets, TLC

\* ---------------------------------------------------------------- bounds
NumSources == 2
NumPools == 2
NumTargets == 2
MaxSendFailures == 1
MaxClock == 600000
MaxRuns == 2
NumMints == 2
NumRecipients == 2
MaxDistRuns == 2
MaxPaid == 2

\* ------------------------------------------------------ program constants
LAMPORTS_PER_SOL == 1000000000
FEE == 5000
DUST_TOLERANCE == 10000
MAX_POOL_ATTEMPTS == 15
POOL_RETRY_STEP_MS == 4000
POOL_RETRY_CAP_MS == 60000
SEND_RETRY_STEP_MS == 2000
SEND_RETRY_CAP_MS == 60000
RPC_RETRY_STEP_MS == 1500
RPC_RETRY_CAP_MS == 30000

\* MIN_DISTRIBUTABLE_TOKENS at its default (base units of the token).
MIN_DISTRIBUTABLE_TOKENS == 1
SEPARATION_SLEEP_MS == 5000

\* Values of the CONFIG object (its file is not part of src/).
MIN_TIME_BETWEEN_WALLETS_MS == 10000
MIN_WITHDRAW_DELAY_MS == 1000
MAX_WITHDRAW_DELAY_MS == 3000
MIN_WITHDRAW_CHUNKS == 1
MAX_WITHDRAW_CHUNKS == 2
SHUFFLE_ROUNDS == 1
MIN_SHUFFLE_PERCENT == 50
MAX_SHUFFLE_PERCENT == 100
DEPOSIT_FEE_BUFFER_LAMPORTS == 40000

\* Answer of the ledger to getMinimumBalanceForRentExemption(0).
RENT_EXEMPTION == 8900

\* ------------------------------------------------------------ input sets
NoTarget == -1
TargetChoices == {NoTarget, 500, 40522}
\* Balance of a funded source account, and what a pool account may still hold
\* from an earlier run.
SourceBalance == 1000000
PoolResidue == 20261
\* Math.random() outcomes used by splitAmountRandomly, as numerators over
\* RandomGrid: 0, a value below 1e-6, 1/16 and 1/2.
RandomGrid == 1048576
RandomDraws == {0, 1, RandomGrid \div 16, RandomGrid \div 2}

Sources == 1..NumSources
Pools == 1..NumPools
Targets == 1..NumTargets
Mints == 1..NumMints
Recipients == 1..NumRecipients

\* Key pairs safeGenerateAndSaveWallet("peel") can make over all the runs.
PeelKeys == 1..(NumTargets * MaxRuns)

Acct(role, k) == <<role, k>>
Accounts ==
  ({"source"} \X Sources) \cup ({"pool"} \X Pools)
    \cup ({"peel"} \X PeelKeys) \cup ({"target"} \X Targets)

\* ----------------------------------------- IEEE double round trip of SOL
RECURSIVE Pow2(_)
Pow2(k) == IF k = 0 THEN 1 ELSE 2 * Pow2(k - 1)

Log2(n) == CHOOSE e \in 0..29 : Pow2(e) <= n /\ n < Pow2(e + 1)

\* x * 2^j modulo 5^9, ten doublings at a time (5^9 * 2^10 < 2^31).
RECURSIVE ScaleModFive(_, _)
ScaleModFive(x, j) ==
  IF j = 0 THEN x
  ELSE IF j >= 10 THEN ScaleModFive((x * 1024) % 1953125, j - 10)
  ELSE ScaleModFive((2 * x) % 1953125, j - 1)

\* r * 2^k modulo 1e9 = 2^9 * 5^9.
RECURSIVE DoubleMod(_, _)
DoubleMod(r, k) ==
  IF k = 0 THEN r
  ELSE IF k >= 9 THEN 512 * ScaleModFive(r % 1953125, k - 9)
  ELSE DoubleMod((2 * r) % LAMPORTS_PER_SOL, k - 1)

\* The quotient n / 1e9 keeps 53 bits iff n * 2^(81-e) / 1e9 >= 2^52, which
\* is n * 2^(29-e) >= 1e9; only then can the product n/1e9 * 1e9 round away
\* from n (otherwise the division error is below half an ulp of n).
HighFraction(n) == n * Pow2(29 - Log2(n)) >= LAMPORTS_PER_SOL

\* Remainder of n * 2^(81-e) by 1e9: the part of the quotient the division
\* rounds off (down when below 1e9/2, up when above).
DivRemainder(n) == DoubleMod(n % LAMPORTS_PER_SOL, 81 - Log2(n))

\* Math.floor((n / LAMPORTS_PER_SOL) * LAMPORTS_PER_SOL)
FloorLamports(n) ==
  IF n <= 0 THEN n
  ELSE IF /\ HighFraction(n)
          /\ DivRemainder(n) < LAMPORTS_PER_SOL \div 2
          /\ DivRemainder(n) > Pow2(28)
       THEN n - 1
       ELSE n

\* Math.ceil((n / LAMPORTS_PER_SOL) * LAMPORTS_PER_SOL)
CeilLamports(n) ==
  IF n <= 0 THEN n
  ELSE IF /\ HighFraction(n)
          /\ DivRemainder(n) > LAMPORTS_PER_SOL \div 2
          /\ LAMPORTS_PER_SOL - DivRemainder(n) > Pow2(28)
       THEN n + 1
       ELSE n

\* An amount held in SOL: what Math.floor(x * 1e9) and Math.ceil(x * 1e9)
\* give for it.
SolOfLamports(n) == [floor |-> FloorLamports(n), ceil |-> CeilLamports(n)]

\* The SOL amount num / den lamports (a product with a random fraction): a
\* whole number of lamports goes through the round trip above, any other
\* value lies too far from a whole number for the rounding to matter.
SolOfFraction(num, den) ==
  IF num % den = 0 THEN SolOfLamports(num \div den)
  ELSE [floor |-> num \div den, ceil |-> (num \div den) + 1]

\* Quotient and remainder of x * y by d for x, y >= 0, by doubling, so that
\* no intermediate value leaves the 32-bit range.
RECURSIVE MulDiv(_, _, _)
MulDiv(x, y, d) ==
  IF y <= 0 THEN [q |-> 0, r |-> 0]
  ELSE LET h == MulDiv(x, y \div 2, d)
           r2 == 2 * h.r + (IF y % 2 = 1 THEN x ELSE 0)
       IN [q |-> 2 * h.q + (r2 \div d), r |-> r2 % d]

\* The SOL amount (k / d) * totalLamports / 1e9 for a difference k of two
\* random fractions, which is negative when the array was left out of order.
SolOfProduct(k, totalLamports, d) ==
  LET m == MulDiv(IF k < 0 THEN -k ELSE k, totalLamports, d)
  IN IF m.r = 0 THEN SolOfLamports(IF k < 0 THEN -m.q ELSE m.q)
     ELSE IF k < 0 THEN [floor |-> -m.q - 1, ceil |-> -m.q]
     ELSE [floor |-> m.q, ceil |-> m.q + 1]

\* ------------------------------------------------------------------ state
VARIABLES
  pc,                      \* position of the single control flow
  now,                     \* Date.now()
  bal,                     \* the ledger: account -> lamports
  outcome,                 \* how initiateMixing ended ("running" until then)
  exitCode,                \* process exit status (-1 while running)
  sourceWallets,           \* loaded source account list
  targetWallets,           \* loaded destination account list
  fundingTargets,          \* destination -> target lamports (NoTarget: absent)
  peelMap,                 \* targetPeelWalletMap: destination -> peel (0: none)
  planIdx,                 \* position of the planning loop
  totalNeeded,             \* totalNeededLamports
  needed,                  \* neededLamports of each planned destination
  pendingTasks,            \* withdrawalTasks / pendingTasks
  fundIdx,                 \* position of the source scan of the funding stage
  shuffleRound,            \* i of the shuffle loop
  walletUnlockTimestamps,  \* destination -> unlock time
  scanIdx,                 \* i of the backward scan over pendingTasks
  taskExecutedInThisPass,
  attempt,                 \* attempt of executeWithdrawalTask
  poolToUse,
  mustSweep,
  send,                    \* the sendSol call in progress
  sig,                     \* result of the last sendSol / sweepWallet call
  cleanupIdx,              \* position of the cleanup loop
  sourceIndex,
  failuresLeft,            \* failed submissions the network may still produce
  txLog,                   \* transfers the ledger applied, in order
  delivered,               \* lamports received by each destination from peels
  firstPaidAt,             \* destination -> time of its first delivery
  peelFile,                \* the persisted peel map: destination -> peel (0: none)
  keysGenerated,           \* key pairs safeGenerateAndSaveWallet("peel") made
  runs,                    \* starts of the process so far
  call,                    \* arguments of a function applied on its own
  result,                  \* what that function returned
  dpc,                     \* position of runDistributionLoop ("stopped": none)
  paused,                  \* PauseSwitch._paused
  pausedWhile,             \* where the loop was when pause() was last called
  stateFile,               \* the persisted state: mint -> destinations paid
  state,                   \* state.sent as loaded and updated by the loop
  sentSet,
  mintKey,                 \* the mint of the running loop (0: none)
  pairs,                   \* recipients of the batch still to be handled
  sendAttempt,             \* attempt of sendWithRetry
  availableLamports,
  paid,                    \* transfers the network accepted: mint, recipient
  distRuns,                \* starts of runDistributionLoop so far
  runPromise,              \* DistributionController: a run is held (non-null)
  abortController,         \* "null", "live" or "aborted"
  lastError,               \* "null" or the message of the run's error
  startedAt,               \* number of the start that set it (0: null)
  currentMint,             \* 0: null
  devWallet,               \* the dev wallet has been loaded and is kept
  loops,                   \* runDistributionLoop calls that have not ended
  settling,                \* the run's promise: "none", "rejected", "caught"
  stopCall,                \* the stop() call in progress, and its answer
  calls,                   \* calls of start, pause, resume and stop so far
  lastCall                 \* the last of them

inputVars == <<sourceWallets, targetWallets, fundingTargets>>
planVars == <<peelMap, planIdx, totalNeeded, needed, pendingTasks>>
stageVars == <<fundIdx, shuffleRound>>
schedVars == <<walletUnlockTimestamps, scanIdx, taskExecutedInThisPass>>
execVars == <<attempt, poolToUse, mustSweep>>
sendVars == <<send, sig>>
cleanVars == <<cleanupIdx, sourceIndex>>
ledgerVars == <<bal, txLog, delivered, firstPaidAt>>
endVars == <<outcome, exitCode>>
storeVars == <<peelFile, keysGenerated>>
harnessVars == <<runs, call, result>>
ctlVars == <<runPromise, abortController, lastError, startedAt, currentMint,
             devWallet, loops, settling, stopCall, calls, lastCall>>
distVars == <<dpc, paused, pausedWhile, stateFile, state, sentSet, mintKey,
              pairs, sendAttempt, availableLamports, paid, distRuns, ctlVars>>

vars == <<pc, now, inputVars, planVars, stageVars, schedVars, execVars,
          sendVars, cleanVars, ledgerVars, endVars, failuresLeft, storeVars,
          harnessVars, distVars>>

NoSend == [from |-> <<"none", 0>>, to |-> <<"none", 0>>, lamports |-> 0,
           attempt |-> 0, ret |-> "none"]

EmptyMap == [x \in {} |-> 0]

NoCall == [fn |-> "none"]

NoStop == [at |-> "none", run |-> 0, running |-> FALSE]

\* The DistributionController as constructed (control.ts lines 38-44).
CtlIdle ==
  /\ runPromise = FALSE
  /\ abortController = "null"
  /\ lastError = "null"
  /\ startedAt = 0
  /\ currentMint = 0
  /\ devWallet = FALSE
  /\ loops = 0
  /\ settling = "none"
  /\ stopCall = NoStop
  /\ calls = 0
  /\ lastCall = "none"

\* No distribution loop has run: no state file, nothing paid.
DistIdle ==
  /\ CtlIdle
  /\ dpc = "stopped"
  /\ paused = FALSE
  /\ pausedWhile = "never"
  /\ stateFile = [m \in Mints |-> {}]
  /\ state = [m \in Mints |-> {}]
  /\ sentSet = {}
  /\ mintKey = 0
  /\ pairs = << >>
  /\ sendAttempt = 0
  /\ availableLamports = 0
  /\ paid = [m \in Mints |-> [r \in Recipients |-> 0]]
  /\ distRuns = 0

\* Nothing has been read from the files yet.
Unloaded ==
  /\ sourceWallets = << >>
  /\ targetWallets = << >>
  /\ fundingTargets = [t \in Targets |-> NoTarget]
  /\ peelMap = [t \in Targets |-> 0]

\* The rest of the memory of a process that has just started.
Fresh ==
  /\ now = 0
  /\ outcome = "running"
  /\ exitCode = -1
  /\ planIdx = 1
  /\ totalNeeded = 0
  /\ needed = [t \in Targets |-> 0]
  /\ pendingTasks = << >>
  /\ fundIdx = 1
  /\ shuffleRound = 0
  /\ walletUnlockTimestamps = EmptyMap
  /\ scanIdx = 0
  /\ taskExecutedInThisPass = FALSE
  /\ attempt = 0
  /\ poolToUse = 0
  /\ mustSweep = FALSE
  /\ send = NoSend
  /\ sig = FALSE
  /\ cleanupIdx = 1
  /\ sourceIndex = 0
  /\ failuresLeft = MaxSendFailures
  /\ txLog = << >>
  /\ delivered = [t \in Targets |-> 0]
  /\ firstPaidAt = EmptyMap
  /\ result = NoCall

\* A first run: no peel map file yet, some sources funded, and at most one
\* pool still holding what an earlier job left.
Init ==
  /\ pc = "load"
  /\ \E firstFunded \in 1..(NumSources + 1), holder \in 0..NumPools :
       bal = [a \in Accounts |->
                CASE a[1] = "source" ->
                       IF a[2] >= firstFunded THEN SourceBalance ELSE 0
                  [] a[1] = "pool" ->
                       IF a[2] = holder THEN PoolResidue ELSE 0
                  [] OTHER -> 0]
  /\ peelFile = [t \in Targets |-> 0]
  /\ keysGenerated = 0
  /\ runs = 1
  /\ call = NoCall
  /\ Unloaded
  /\ Fresh
  /\ DistIdle

TaskFailures == {"poolToPeelFailed", "strandedFunds", "poolExhausted"}

\* Mutant of Return: a failed task leaves the withdrawal loop with `break`,
\* so the run falls through to the cleanup stage.
ReturnBreaksToCleanup(how) ==
  /\ pc' = IF how \in TaskFailures THEN "cleanup" ELSE "returned"
  /\ outcome' = how
  /\ UNCHANGED exitCode

\* Mutant of Return: the catch block of the funding map lacks its `return`,
\* and the run goes on to the funding stage without a plan.
ReturnMissingAfterMapError(how) ==
  /\ pc' = IF how = "noFundingMap" THEN "fund" ELSE "returned"
  /\ outcome' = how
  /\ UNCHANGED exitCode

\* `return` inside initiateMixing.
Return(how) ==
  /\ pc' = "returned"
  /\ outcome' = how
  /\ UNCHANGED exitCode

Min(a, b) == IF a <= b THEN a ELSE b
Max(a, b) == IF a >= b THEN a ELSE b

\* ------------------------------------------------------- sendSol, ledger
\* SystemProgram.transfer signed by the sender, who also pays the fee.
Transfer(b, from, to, lamports) ==
  [b EXCEPT ![from] = @ - lamports - FEE, ![to] = @ + lamports]

\* sendSol(from, to, amountSol), returning to position ret: an amount <= 0
\* returns "" at once, anything else enters the submission loop.
CallSendSol(from, to, amountSol, ret) ==
  IF amountSol.ceil <= 0
  THEN /\ sig' = FALSE
       /\ pc' = ret
       /\ UNCHANGED send
  ELSE /\ send' = [from |-> from, to |-> to, lamports |-> amountSol.floor,
                   attempt |-> 1, ret |-> ret]
       /\ pc' = "sendSol"
       /\ UNCHANGED sig

\* sweepWallet(from, to): null when the live balance is at most the fee,
\* else sendSol of (balance - fee) / LAMPORTS_PER_SOL.
CallSweepWallet(from, to, ret) ==
  IF bal[from] <= FEE
  THEN /\ sig' = FALSE
       /\ pc' = ret
       /\ UNCHANGED send
  ELSE CallSendSol(from, to, SolOfLamports(bal[from] - FEE), ret)

\* sendAndConfirmTransaction succeeds: the ledger applies the transfer.
SendSolConfirmed ==
  /\ pc = "sendSol"
  /\ bal[send.from] >= send.lamports + FEE
  /\ bal' = Transfer(bal, send.from, send.to, send.lamports)
  /\ txLog' = Append(txLog, [from |-> send.from, to |-> send.to,
                             lamports |-> send.lamports])
  /\ IF send.to[1] = "target"
     THEN /\ delivered' = [delivered EXCEPT ![send.to[2]] = @ + send.lamports]
          /\ firstPaidAt' =
               IF send.to[2] \in DOMAIN firstPaidAt THEN firstPaidAt
               ELSE (send.to[2] :> now) @@ firstPaidAt
     ELSE UNCHANGED <<delivered, firstPaidAt>>
  /\ sig' = TRUE
  /\ pc' = send.ret
  /\ send' = NoSend
  /\ UNCHANGED <<now, inputVars, planVars, stageVars, schedVars, execVars,
                 cleanVars, endVars, failuresLeft,
                 storeVars, harnessVars, distVars>>

\* Mutant of RpcSleepTime: the wait is not capped.
RpcSleepTimeUncapped(nth) == RPC_RETRY_STEP_MS * nth

\* sleepTime of withRpcRetry (line 31) after the failure of attempt nth.
RpcSleepTime(nth) == Min(RPC_RETRY_STEP_MS * nth, RPC_RETRY_CAP_MS)

\* Mutant of SendSleepTime: the wait is not capped.
SendSleepTimeUncapped(nth) == SEND_RETRY_STEP_MS * nth

\* sleepTime of sendSol (line 101) after the failure of attempt nth.
SendSleepTime(nth) == Min(SEND_RETRY_STEP_MS * nth, SEND_RETRY_CAP_MS)

\* sendAndConfirmTransaction throws: sleep min(2000 * attempt, 60000), retry.
SendSolRetry ==
  /\ pc = "sendSol"
  /\ failuresLeft > 0
  /\ failuresLeft' = failuresLeft - 1
  /\ now + SendSleepTime(send.attempt) <= MaxClock
  /\ now' = now + SendSleepTime(send.attempt)
  /\ send' = [send EXCEPT !.attempt = @ + 1]
  /\ UNCHANGED <<pc, sig, inputVars, planVars, stageVars, schedVars, execVars,
                 cleanVars, ledgerVars, endVars, storeVars, harnessVars, distVars>>

\* ------------------------------------------------------ stage 1: planning
AllOf(S) == [k \in 1..Cardinality(S) |-> k]

\* targetPeelWalletMap after lines 195-214: the persisted map, or an empty
\* one when the file is missing, unreadable or not JSON.
LoadedPeelMap(file, readable) ==
  IF readable THEN file ELSE [t \in Targets |-> 0]

\* Lines 163-214: load the account lists, the funding map and the peel map.
\* An empty list or an unreadable funding map ends the run.
LoadWallets ==
  /\ pc = "load"
  /\ \E srcs \in {<< >>, AllOf(Sources)}, tgts \in {<< >>, AllOf(Targets)},
        mapOk \in BOOLEAN, ft \in [Targets -> TargetChoices],
        peelsOk \in BOOLEAN :
       /\ sourceWallets' = srcs
       /\ targetWallets' = tgts
       /\ IF Len(srcs) = 0 \/ Len(tgts) = 0
          THEN /\ Return("noWallets")
               /\ UNCHANGED <<fundingTargets, peelMap>>
          ELSE IF ~mapOk
          THEN /\ Return("noFundingMap")
               /\ UNCHANGED <<fundingTargets, peelMap>>
          ELSE /\ fundingTargets' = ft
               /\ peelMap' = LoadedPeelMap(peelFile, peelsOk)
               /\ pc' = "plan"
               /\ UNCHANGED endVars
  /\ UNCHANGED <<now, planIdx, totalNeeded, needed, pendingTasks, stageVars,
                 schedVars, execVars, sendVars, cleanVars, ledgerVars,
                 failuresLeft, storeVars, harnessVars, distVars>>

minChunkLamports == RENT_EXEMPTION + FEE

\* safeGenerateAndSaveWallet("peel"): a key pair that did not exist before.
NewPeel == keysGenerated + 1

\* String(x) of the number x = k / RandomGrid is written with an exponent
\* ("9.5367431640625e-7") iff 0 < x < 1e-6.
ExponentNotation(k) == k > 0 /\ k <= (RandomGrid - 1) \div 1000000

\* Place of String(k / RandomGrid) in the order of randoms.sort(), which has
\* no comparator and so compares the strings by code units: "0", the
\* fractions "0.ddd" in numeric order, "1", and then the numbers written with
\* an exponent, which start with a digit 1..9 (a grid below 2e6 holds one).
StringRank(k) == IF ExponentNotation(k) THEN RandomGrid + k ELSE k

\* randoms.sort() of line 60.
JsSort(seq) ==
  CHOOSE s \in [1..Len(seq) -> {seq[i] : i \in 1..Len(seq)}] :
    /\ \A v \in {seq[i] : i \in 1..Len(seq)} :
         Cardinality({i \in 1..Len(seq) : s[i] = v})
           = Cardinality({i \in 1..Len(seq) : seq[i] = v})
    /\ \A j \in 1..(Len(seq) - 1) : StringRank(s[j]) <= StringRank(s[j + 1])

\* splitAmountRandomly(totalLamports / 1e9, numParts) for the numParts - 1
\* values Math.random() returned.
splitAmountRandomly(totalLamports, numParts, draws) ==
  IF numParts <= 0 THEN << >>
  ELSE IF numParts = 1 THEN <<SolOfLamports(totalLamports)>>
  ELSE LET randoms == JsSort(draws \o <<0, RandomGrid>>)
       IN [i \in 1..(Len(randoms) - 1) |->
             SolOfProduct(randoms[i + 1] - randoms[i], totalLamports,
                          RandomGrid)]

\* Mutant of NumChunks: the drawn count is not capped by what the amount
\* can carry.
NumChunksUncapped(neededLamports, drawn) == Max(1, drawn)

\* Mutant of NumChunks: as many chunks as the amount can carry, whatever
\* was drawn.
NumChunksByAmount(neededLamports, drawn) ==
  Max(1, neededLamports \div minChunkLamports)

\* numChunks of lines 268-277 for the drawn value.
NumChunks(neededLamports, drawn) ==
  Max(1, Min(drawn, neededLamports \div minChunkLamports))

\* neededLamports of lines 259-265.
NeededLamports(targetBalance, balance) ==
  IF Max(0, targetBalance - balance) > 0
       /\ Max(0, targetBalance - balance) < minChunkLamports
  THEN minChunkLamports
  ELSE Max(0, targetBalance - balance)

\* One iteration of the loop of lines 228-291.
PlanTarget ==
  /\ pc = "plan"
  /\ planIdx <= Len(targetWallets)
  /\ LET t == targetWallets[planIdx]
         map == IF peelMap[t] = 0
                THEN [peelMap EXCEPT ![t] = NewPeel]
                ELSE peelMap
         n == NeededLamports(fundingTargets[t], bal[Acct("target", t)])
     IN /\ peelMap' = map
        /\ IF peelMap[t] = 0
           THEN /\ keysGenerated' = keysGenerated + 1
                /\ peelFile' = map
           ELSE UNCHANGED storeVars
        /\ planIdx' = planIdx + 1
        /\ IF fundingTargets[t] = NoTarget \/ n = 0
           THEN UNCHANGED <<totalNeeded, needed, pendingTasks>>
           ELSE \E drawn \in MIN_WITHDRAW_CHUNKS..MAX_WITHDRAW_CHUNKS :
                \E draws \in [1..(NumChunks(n, drawn) - 1) -> RandomDraws] :
                  LET chunks == splitAmountRandomly(n, NumChunks(n, drawn), draws)
                  IN /\ totalNeeded' = totalNeeded + n
                     /\ needed' = [needed EXCEPT ![t] = n]
                     /\ pendingTasks' = pendingTasks \o
                          [i \in 1..Len(chunks) |->
                             [targetWallet |-> t, amountSol |-> chunks[i],
                              peelWallet |-> map[t]]]
  /\ UNCHANGED <<pc, now, inputVars, stageVars, schedVars, execVars, sendVars,
                 cleanVars, ledgerVars, endVars, failuresLeft, harnessVars, distVars>>

\* Lines 293-298: nothing to do, or on to the funding stage.
PlanDone ==
  /\ pc = "plan"
  /\ planIdx > Len(targetWallets)
  /\ IF totalNeeded = 0
     THEN Return("nothingToDo")
     ELSE /\ pc' = "fund"
          /\ UNCHANGED endVars
  /\ UNCHANGED <<now, inputVars, planVars, stageVars, schedVars, execVars,
                 sendVars, cleanVars, ledgerVars, failuresLeft,
                 storeVars, harnessVars, distVars>>

\* ------------------------------------------------- stage 2: pool funding
RECURSIVE PoolSum(_, _)
PoolSum(b, k) == IF k = 0 THEN 0 ELSE b[Acct("pool", k)] + PoolSum(b, k - 1)

\* requiredPoolBalanceForCompletionLamports (lines 326-340).
RequiredPoolBalance ==
  FloorLamports(totalNeeded + DEPOSIT_FEE_BUFFER_LAMPORTS)

\* deficitLamports (line 361); the pool balances do not change between the
\* check and the deposit, so it is read off the ledger.
PoolDeficit == RequiredPoolBalance - PoolSum(bal, NumPools)

\* Mutant of CheckPools: the dust tolerance is not granted.
CheckPoolsNoTolerance ==
  /\ pc = "fund"
  /\ IF PoolDeficit <= 0
     THEN pc' = "shuffle"
     ELSE pc' = "fundScan"
  /\ fundIdx' = 1
  /\ UNCHANGED <<now, inputVars, planVars, shuffleRound, schedVars, execVars,
                 sendVars, cleanVars, ledgerVars, endVars, failuresLeft,
                 storeVars, harnessVars, distVars>>

\* Lines 346-358: skip the deposit when the pools already hold enough.
CheckPools ==
  /\ pc = "fund"
  /\ IF PoolSum(bal, NumPools) >= RequiredPoolBalance - DUST_TOLERANCE
        \/ PoolDeficit <= 0
     THEN pc' = "shuffle"
     ELSE pc' = "fundScan"
  /\ fundIdx' = 1
  /\ UNCHANGED <<now, inputVars, planVars, shuffleRound, schedVars, execVars,
                 sendVars, cleanVars, ledgerVars, endVars, failuresLeft,
                 storeVars, harnessVars, distVars>>

\* Lines 377-431: one source of the scan; the first one that covers deficit,
\* fee and rent reserve deposits the whole deficit into a random pool.
FundFromSource ==
  /\ pc = "fundScan"
  /\ IF fundIdx > Len(sourceWallets)
     THEN /\ Return("noSourceCovers")
          /\ UNCHANGED <<fundIdx, sendVars>>
     ELSE IF bal[Acct("source", sourceWallets[fundIdx])]
               >= PoolDeficit + FEE + RENT_EXEMPTION
     THEN /\ \E pool \in Pools :
               CallSendSol(Acct("source", sourceWallets[fundIdx]),
                           Acct("pool", pool), SolOfLamports(PoolDeficit),
                           "fundSent")
          /\ UNCHANGED <<fundIdx, endVars>>
     ELSE /\ fundIdx' = fundIdx + 1
          /\ UNCHANGED <<pc, sendVars, endVars>>
  /\ UNCHANGED <<now, inputVars, planVars, shuffleRound, schedVars, execVars,
                 cleanVars, ledgerVars, failuresLeft,
                 storeVars, harnessVars, distVars>>

\* Lines 400-414: the deposit returned.
FundSent ==
  /\ pc = "fundSent"
  /\ IF sig
     THEN /\ pc' = "shuffle"
          /\ UNCHANGED fundIdx
     ELSE /\ pc' = "fundScan"
          /\ fundIdx' = fundIdx + 1
  /\ UNCHANGED <<now, inputVars, planVars, shuffleRound, schedVars, execVars,
                 sendVars, cleanVars, ledgerVars, endVars, failuresLeft,
                 storeVars, harnessVars, distVars>>

\* ------------------------------------------------------- stage 3: shuffle
\* Math.random() * (MAX - MIN) + MIN, sampled.
ShufflePercents ==
  {MIN_SHUFFLE_PERCENT, (MIN_SHUFFLE_PERCENT + MAX_SHUFFLE_PERCENT) \div 2}

\* One round of lines 447-467.
ShuffleRound ==
  /\ pc = "shuffle"
  /\ shuffleRound < SHUFFLE_ROUNDS
  /\ shuffleRound' = shuffleRound + 1
  /\ \E pool1 \in Pools, pool2 \in Pools, percent \in ShufflePercents :
       IF pool1 = pool2 \/ bal[Acct("pool", pool1)] <= FEE
       THEN UNCHANGED <<pc, sendVars>>
       ELSE CallSendSol(Acct("pool", pool1), Acct("pool", pool2),
              SolOfFraction((bal[Acct("pool", pool1)] - FEE) * percent, 100),
              "shuffleSent")
  /\ UNCHANGED <<now, inputVars, planVars, fundIdx, schedVars, execVars,
                 cleanVars, ledgerVars, endVars, failuresLeft,
                 storeVars, harnessVars, distVars>>

\* --------------------------------------------------- stage 4: withdrawals
Reverse(s) == [i \in 1..Len(s) |-> s[Len(s) + 1 - i]]

\* Odd positions first, then the even ones.
Riffle(s) ==
  [i \in 1..Len(s) |->
     IF i <= (Len(s) + 1) \div 2 THEN s[2 * i - 1]
     ELSE s[2 * (i - (Len(s) + 1) \div 2)]]

\* Orders withdrawalTasks.sort(() => Math.random() - 0.5) can leave, sampled.
TaskOrders(s) == {s, Reverse(s), Riffle(s)}

\* Mutant of RemoveAt: the task at the front of the queue is taken out
\* (shift instead of splice).
RemoveAtFront(s, i) == [k \in 1..(Len(s) - 1) |-> s[k + 1]]

RemoveAt(s, i) ==
  [k \in 1..(Len(s) - 1) |-> IF k < i THEN s[k] ELSE s[k + 1]]

\* Line 566 and the first entry into the loop of line 568.
StartWithdraw ==
  /\ pc = "shuffle"
  /\ shuffleRound >= SHUFFLE_ROUNDS
  /\ \E order \in TaskOrders(pendingTasks) :
       /\ pendingTasks' = order
       /\ scanIdx' = Len(order)
  /\ taskExecutedInThisPass' = FALSE
  /\ pc' = "scan"
  /\ UNCHANGED <<now, inputVars, peelMap, planIdx, totalNeeded, needed,
                 stageVars, walletUnlockTimestamps, execVars, sendVars,
                 cleanVars, ledgerVars, endVars, failuresLeft,
                 storeVars, harnessVars, distVars>>

\* A shuffle transfer returned: next round.
ShuffleSent ==
  /\ pc = "shuffleSent"
  /\ pc' = "shuffle"
  /\ UNCHANGED <<now, inputVars, planVars, stageVars, schedVars, execVars,
                 sendVars, cleanVars, ledgerVars, endVars, failuresLeft,
                 storeVars, harnessVars, distVars>>

MaxOf(S) == CHOOSE x \in S : \A y \in S : y <= x

\* lastUnlockTime of lines 581-583.
LastUnlockTime(reg) == MaxOf({reg[t] : t \in DOMAIN reg})

\* Mutant of GateOpens: the separation test is missing.
GateOpensUnchecked(reg, t, at) == TRUE

\* Mutant of GateOpens: the inter-pass sleep is used as the separation.
GateOpensShort(reg, t, at) ==
  \/ t \in DOMAIN reg
  \/ DOMAIN reg = {}
  \/ at - LastUnlockTime(reg) >= SEPARATION_SLEEP_MS

\* Mutant of GateOpens: the last unlock time is not subtracted.
GateOpensAbsolute(reg, t, at) ==
  \/ t \in DOMAIN reg
  \/ DOMAIN reg = {}
  \/ at >= MIN_TIME_BETWEEN_WALLETS_MS

\* Mutant of GateOpens: the elapsed time is taken from the first unlock to
\* the last one, which no sleep makes longer.
GateOpensFrozen(reg, t, at) ==
  \/ t \in DOMAIN reg
  \/ DOMAIN reg = {}
  \/ LastUnlockTime(reg) - LastUnlockTime(reg) >= MIN_TIME_BETWEEN_WALLETS_MS

\* Lines 573-592: does the gate let a task of destination t run at time at?
GateOpens(reg, t, at) ==
  \/ t \in DOMAIN reg
  \/ DOMAIN reg = {}
  \/ at - LastUnlockTime(reg) >= MIN_TIME_BETWEEN_WALLETS_MS

\* Mutant of Unlocked: every evaluation of a ready task stamps the entry anew.
UnlockedRefreshed(reg, t, at) ==
  IF GateOpens(reg, t, at)
  THEN (t :> at) @@ [d \in DOMAIN reg \ {t} |-> reg[d]]
  ELSE reg

\* walletUnlockTimestamps after the evaluation of a task of destination t.
Unlocked(reg, t, at) ==
  IF t \in DOMAIN reg THEN reg
  ELSE IF GateOpens(reg, t, at) THEN (t :> at) @@ reg
  ELSE reg

\* Lines 570-595: evaluate pendingTasks[i]; a ready task enters
\* executeWithdrawalTask, any other is passed over.
ScanTask ==
  /\ pc = "scan"
  /\ scanIdx >= 1
  /\ LET t == pendingTasks[scanIdx].targetWallet
     IN /\ walletUnlockTimestamps' = Unlocked(walletUnlockTimestamps, t, now)
        /\ IF GateOpens(walletUnlockTimestamps, t, now)
           THEN /\ pc' = "select"
                /\ attempt' = 0
                /\ UNCHANGED scanIdx
           ELSE /\ scanIdx' = scanIdx - 1
                /\ UNCHANGED <<pc, attempt>>
  /\ UNCHANGED <<now, inputVars, planVars, stageVars, taskExecutedInThisPass,
                 poolToUse, mustSweep, sendVars, cleanVars, ledgerVars,
                 endVars, failuresLeft,
                 storeVars, harnessVars, distVars>>

\* Lines 609-615 and the loop test of line 568: the pass is over.
PassEnd ==
  /\ pc = "scan"
  /\ scanIdx = 0
  /\ IF Len(pendingTasks) = 0
     THEN /\ pc' = "cleanup"
          /\ UNCHANGED <<now, scanIdx, taskExecutedInThisPass>>
     ELSE /\ now' = IF taskExecutedInThisPass THEN now
                    ELSE now + SEPARATION_SLEEP_MS
          /\ now' <= MaxClock
          /\ scanIdx' = Len(pendingTasks)
          /\ taskExecutedInThisPass' = FALSE
          /\ UNCHANGED pc
  /\ UNCHANGED <<inputVars, planVars, stageVars, walletUnlockTimestamps,
                 execVars, sendVars, cleanVars, ledgerVars, endVars,
                 failuresLeft,
                 storeVars, harnessVars, distVars>>

\* Mutant of Remainder: the fee of the transfer is not set aside.
RemainderWithoutFee(b, k, lamportsRequired) ==
  b[Acct("pool", k)] - lamportsRequired

\* remainder of line 492 for pool k.
Remainder(b, k, lamportsRequired) ==
  b[Acct("pool", k)] - lamportsRequired - FEE

\* The two tests of lines 493 and 498.
LeavesRent(b, k, lamportsRequired) ==
  Remainder(b, k, lamportsRequired) >= RENT_EXEMPTION

LeavesDust(b, k, lamportsRequired) ==
  /\ Remainder(b, k, lamportsRequired) >= 0
  /\ Remainder(b, k, lamportsRequired) < RENT_EXEMPTION

\* poolToUse after the loop of lines 490-504 (0: none): the first pool, in
\* list order, that passes either test.
PoolToUse(b, lamportsRequired) ==
  IF \E k \in Pools : LeavesRent(b, k, lamportsRequired)
                        \/ LeavesDust(b, k, lamportsRequired)
  THEN CHOOSE k \in Pools :
         /\ LeavesRent(b, k, lamportsRequired)
              \/ LeavesDust(b, k, lamportsRequired)
         /\ \A j \in 1..(k - 1) :
              ~(LeavesRent(b, j, lamportsRequired)
                  \/ LeavesDust(b, j, lamportsRequired))
  ELSE 0

\* mustSweep after that loop.
MustSweep(b, lamportsRequired) ==
  /\ PoolToUse(b, lamportsRequired) # 0
  /\ ~LeavesRent(b, PoolToUse(b, lamportsRequired), lamportsRequired)

\* Mutant of PoolRetrySleep: the backoff of sendSol is used.
PoolRetrySleepOfSendSol(k) == Min(SEND_RETRY_STEP_MS * k, SEND_RETRY_CAP_MS)

\* sleepTime of line 551 after the k-th scan.
PoolRetrySleep(k) == Min(POOL_RETRY_STEP_MS * k, POOL_RETRY_CAP_MS)

\* One iteration of the loop of lines 480-558: pick a pool and start the
\* first hop, or sleep and try again.
SelectPool ==
  /\ pc = "select"
  /\ attempt < MAX_POOL_ATTEMPTS
  /\ attempt' = attempt + 1
  /\ LET task == pendingTasks[scanIdx]
         lamportsRequired == task.amountSol.ceil
         pool == PoolToUse(bal, lamportsRequired)
     IN /\ poolToUse' = pool
        /\ mustSweep' = MustSweep(bal, lamportsRequired)
        /\ IF pool # 0
           THEN /\ IF MustSweep(bal, lamportsRequired)
                   THEN CallSweepWallet(Acct("pool", pool),
                          Acct("peel", task.peelWallet), "hop1Done")
                   ELSE CallSendSol(Acct("pool", pool),
                          Acct("peel", task.peelWallet), task.amountSol,
                          "hop1Done")
                /\ UNCHANGED now
           ELSE /\ now' = now + PoolRetrySleep(attempt + 1)
                /\ now' <= MaxClock
                /\ UNCHANGED <<pc, sendVars>>
  /\ UNCHANGED <<inputVars, planVars, stageVars, schedVars, cleanVars,
                 ledgerVars, endVars, failuresLeft,
                 storeVars, harnessVars, distVars>>

\* Lines 560-563 and 603-606: no pool after the last attempt; the job stops.
PoolExhausted ==
  /\ pc = "select"
  /\ attempt >= MAX_POOL_ATTEMPTS
  /\ Return("poolExhausted")
  /\ UNCHANGED <<now, inputVars, planVars, stageVars, schedVars, execVars,
                 sendVars, cleanVars, ledgerVars, failuresLeft,
                 storeVars, harnessVars, distVars>>

\* Lines 527-535: the first hop returned; without a signature the job stops,
\* else the peel account is swept to the destination.
Hop1Done ==
  /\ pc = "hop1Done"
  /\ IF ~sig
     THEN /\ Return("poolToPeelFailed")
          /\ UNCHANGED sendVars
     ELSE /\ CallSweepWallet(Acct("peel", pendingTasks[scanIdx].peelWallet),
               Acct("target", pendingTasks[scanIdx].targetWallet), "hop2Done")
          /\ UNCHANGED endVars
  /\ UNCHANGED <<now, inputVars, planVars, stageVars, schedVars, execVars,
                 cleanVars, ledgerVars, failuresLeft,
                 storeVars, harnessVars, distVars>>

\* Lines 536-543 and 596-606: the second hop returned; without a signature
\* the funds are stranded and the job stops, else the task is removed.
Hop2Done ==
  /\ pc = "hop2Done"
  /\ IF ~sig
     THEN /\ Return("strandedFunds")
          /\ UNCHANGED <<pendingTasks, taskExecutedInThisPass>>
     ELSE /\ pendingTasks' = RemoveAt(pendingTasks, scanIdx)
          /\ taskExecutedInThisPass' = TRUE
          /\ pc' = "delay"
          /\ UNCHANGED endVars
  /\ UNCHANGED <<now, inputVars, peelMap, planIdx, totalNeeded, needed,
                 stageVars, walletUnlockTimestamps, scanIdx, execVars,
                 sendVars, cleanVars, ledgerVars, failuresLeft,
                 storeVars, harnessVars, distVars>>

\* Delays executeRandomDelay(minMs, maxMs) can sleep, sampled at the ends.
RandomDelays(minMs, maxMs) ==
  IF minMs >= maxMs THEN {Max(minMs, 0)} ELSE {minMs, maxMs}

\* Lines 599-602: the pause after a completed task; the scan then goes on
\* with the task below.
TaskDelay ==
  /\ pc = "delay"
  /\ \E delay \in RandomDelays(MIN_WITHDRAW_DELAY_MS, MAX_WITHDRAW_DELAY_MS) :
       /\ now + delay <= MaxClock
       /\ now' = now + delay
  /\ scanIdx' = scanIdx - 1
  /\ pc' = "scan"
  /\ UNCHANGED <<inputVars, planVars, stageVars, walletUnlockTimestamps,
                 taskExecutedInThisPass, execVars, sendVars, cleanVars,
                 ledgerVars, endVars, failuresLeft,
                 storeVars, harnessVars, distVars>>

\* ------------------------------------------------------- stage 5: cleanup
\* One iteration of the loop of lines 620-630.
CleanupPool ==
  /\ pc = "cleanup"
  /\ cleanupIdx <= NumPools
  /\ IF bal[Acct("pool", cleanupIdx)] > FEE
     THEN /\ CallSweepWallet(Acct("pool", cleanupIdx),
               Acct("source",
                    sourceWallets[(sourceIndex % Len(sourceWallets)) + 1]),
               "cleanupSwept")
          /\ UNCHANGED cleanupIdx
     ELSE /\ cleanupIdx' = cleanupIdx + 1
          /\ UNCHANGED <<pc, sendVars>>
  /\ UNCHANGED <<now, inputVars, planVars, stageVars, schedVars, execVars,
                 sourceIndex, ledgerVars, endVars, failuresLeft,
                 storeVars, harnessVars, distVars>>

\* Mutant of CleanupSwept: the loop is left after the first sweep.
CleanupSweptLeavesLoop ==
  /\ pc = "cleanupSwept"
  /\ sourceIndex' = sourceIndex + 1
  /\ cleanupIdx' = NumPools + 1
  /\ pc' = "cleanup"
  /\ UNCHANGED <<now, inputVars, planVars, stageVars, schedVars, execVars,
                 sendVars, ledgerVars, endVars, failuresLeft,
                 storeVars, harnessVars, distVars>>

\* Line 628: the sweep returned.
CleanupSwept ==
  /\ pc = "cleanupSwept"
  /\ sourceIndex' = sourceIndex + 1
  /\ cleanupIdx' = cleanupIdx + 1
  /\ pc' = "cleanup"
  /\ UNCHANGED <<now, inputVars, planVars, stageVars, schedVars, execVars,
                 sendVars, ledgerVars, endVars, failuresLeft,
                 storeVars, harnessVars, distVars>>

\* Line 631: the run finished.
CleanupDone ==
  /\ pc = "cleanup"
  /\ cleanupIdx > NumPools
  /\ Return("completed")
  /\ UNCHANGED <<now, inputVars, planVars, stageVars, schedVars, execVars,
                 sendVars, cleanVars, ledgerVars, failuresLeft,
                 storeVars, harnessVars, distVars>>

\* ------------------------------------------------------------------- main
\* Lines 635-645: exit(1) only when initiateMixing threw; a run that
\* returned leaves the process to end with status 0.
ExitStatus(how) == IF how = "threw" THEN 1 ELSE 0

MainExit ==
  /\ pc = "returned"
  /\ exitCode' = ExitStatus(outcome)
  /\ pc' = "exited"
  /\ UNCHANGED <<now, inputVars, planVars, stageVars, schedVars, execVars,
                 sendVars, cleanVars, ledgerVars, outcome, failuresLeft,
                 storeVars, harnessVars, distVars>>

Next ==
  \/ LoadWallets
  \/ PlanTarget
  \/ PlanDone
  \/ CheckPools
  \/ FundFromSource
  \/ FundSent
  \/ ShuffleRound
  \/ ShuffleSent
  \/ StartWithdraw
  \/ ScanTask
  \/ PassEnd
  \/ SelectPool
  \/ PoolExhausted
  \/ Hop1Done
  \/ Hop2Done
  \/ TaskDelay
  \/ CleanupPool
  \/ CleanupSwept
  \/ CleanupDone
  \/ SendSolConfirmed
  \/ SendSolRetry
  \/ MainExit

Spec == Init /\ [][Next]_vars

\* The process ended, or was stopped after the planning stage, and is started
\* again: its memory is gone, the ledger and the peel map file remain.
Restart ==
  /\ pc \in {"fund", "returned", "exited"}
  /\ runs < MaxRuns
  /\ runs' = runs + 1
  /\ pc' = "load"
  /\ sourceWallets' = << >>
  /\ targetWallets' = << >>
  /\ fundingTargets' = [t \in Targets |-> NoTarget]
  /\ peelMap' = [t \in Targets |-> 0]
  /\ now' = 0
  /\ outcome' = "running"
  /\ exitCode' = -1
  /\ planIdx' = 1
  /\ totalNeeded' = 0
  /\ needed' = [t \in Targets |-> 0]
  /\ pendingTasks' = << >>
  /\ UNCHANGED <<stageVars, schedVars, execVars, sendVars, cleanVars,
                 ledgerVars, failuresLeft, storeVars, call, result,
                 distVars>>

\* The planning stage over repeated runs.
Restarting ==
  \/ LoadWallets
  \/ PlanTarget
  \/ PlanDone
  \/ MainExit
  \/ Restart

RestartSpec == Init /\ [][Restarting]_vars

\* The steps of the withdrawal stage (lines 472-615).
Withdrawing ==
  \/ ScanTask
  \/ PassEnd
  \/ SelectPool
  \/ PoolExhausted
  \/ Hop1Done
  \/ Hop2Done
  \/ TaskDelay
  \/ SendSolConfirmed
  \/ SendSolRetry

\* A run that has loaded both account lists and a funding map asking for a
\* top-up of every destination (the first one below minChunk), with every
\* source funded and the pools empty.
LoadedInit ==
  /\ pc = "plan"
  /\ sourceWallets = AllOf(Sources)
  /\ targetWallets = AllOf(Targets)
  /\ fundingTargets = [t \in Targets |-> IF t = 1 THEN 500 ELSE 40522]
  /\ peelMap = [t \in Targets |-> 0]
  /\ bal = [a \in Accounts |-> IF a[1] = "source" THEN SourceBalance ELSE 0]
  /\ peelFile = [t \in Targets |-> 0]
  /\ keysGenerated = 0
  /\ runs = 1
  /\ call = NoCall
  /\ Fresh
  /\ DistIdle

\* The steps of a run after the files are loaded.
Running ==
  \/ PlanTarget
  \/ PlanDone
  \/ CheckPools
  \/ FundFromSource
  \/ FundSent
  \/ ShuffleRound
  \/ ShuffleSent
  \/ StartWithdraw
  \/ Withdrawing
  \/ CleanupPool
  \/ CleanupSwept
  \/ CleanupDone
  \/ MainExit

\* The process is the only thread and is never suspended for good: while a
\* step of the withdrawal stage is possible, one is taken.  The network
\* fails a submission at most MaxSendFailures times, so every ledger call
\* succeeds in the end.
FairSpec == LoadedInit /\ [][Running]_vars /\ WF_vars(Withdrawing)

\* ===================================== the functions, applied on their own
MaxParts == 3
MaxPersisted == 3
\* Failures in a row of one ledger call.
MaxFailures == 32

\* Pool balances and chunk amounts (lamports) for the pool selection of
\* lines 485-504.
PoolBalanceChoices == {0, 3000, 50000}
ChunkChoices == {13900, 40000}

\* Totals (lamports) for splitAmountRandomly, target balances and current
\* balances for the planning of one destination (lines 258-289).
SplitTotals == {40522, 1000000}
TargetBalanceChoices == {500, 40522, 1000000}
BalanceChoices == {0, 100}

SelectCalls ==
  [fn : {"selectPool"}, balances : [Pools -> PoolBalanceChoices],
   amount : ChunkChoices]

SplitCalls ==
  [fn : {"split"}, total : SplitTotals, numParts : 1..MaxParts,
   draws : [1..(MaxParts - 1) -> RandomDraws]]

PlanCalls ==
  [fn : {"plan"}, targetBalance : TargetBalanceChoices,
   balance : BalanceChoices, drawn : 1..MaxParts,
   draws : [1..(MaxParts - 1) -> RandomDraws]]

\* Persisted pool accounts (keys 1..persisted), whether their file can be
\* read, and the count asked of getOrGenerateWallets.
PoolCalls ==
  [fn : {"getOrGenerateWallets"}, persisted : 0..MaxPersisted,
   readable : BOOLEAN, count : 1..MaxPersisted]

\* A ledger call made through withRpcRetry, or a transfer made by sendSol,
\* whose first attempts fail as many times as given.
RetryCalls ==
  [fn : {"withRpcRetry", "sendSol"}, failures : 0..MaxFailures]

\* Token amounts acquired by a buyback (base units), the most recipients of
\* a batch, and the weights 1 + Math.floor(Math.random() * 100) drawn by
\* randomSplit.
AcquiredChoices == {1, 2, 3, 4, 1000}
MaxBatch == 3
WeightChoices == {1, 50, 100}

SplitTokensCalls ==
  [fn : {"randomSplit"}, total : AcquiredChoices,
   weights : UNION {[1..n -> WeightChoices] : n \in 1..MaxBatch}]

\* Lamports for the spend of a buyback (lines 556-557, 571-633): the
\* trigger and the cap after Math.max(0, Math.floor(..)), the vault, and
\* the dev wallet's balance before the claim, after it, and at line 610.
TriggerChoices == {0, 300}
CapChoices == {0, 500, 2000}
VaultChoices == {0, 300, 5000}
WalletChoices == {0, 400, 1000}

SpendCalls ==
  [fn : {"spend"}, triggerLamports : TriggerChoices,
   capLamports : CapChoices, vaultLamports : VaultChoices,
   preClaimBalance : WalletChoices, postClaimBalance : WalletChoices,
   lamportsBalance : WalletChoices]

\* A ledger whose pool accounts hold the given balances.
LedgerOf(balances) ==
  [a \in Accounts |-> IF a[1] = "pool" THEN balances[a[2]] ELSE 0]

CallInit ==
  /\ pc = "call"
  /\ call \in SelectCalls \cup SplitCalls \cup PlanCalls \cup PoolCalls
               \cup RetryCalls \cup SplitTokensCalls \cup SpendCalls
  /\ bal = LedgerOf([k \in Pools |-> 0])
  /\ peelFile = [t \in Targets |-> 0]
  /\ keysGenerated = 0
  /\ runs = 1
  /\ Unloaded
  /\ Fresh
  /\ DistIdle

CallDone ==
  /\ pc' = "called"
  /\ UNCHANGED <<now, inputVars, planVars, stageVars, schedVars, execVars,
                 sendVars, cleanVars, ledgerVars, endVars, failuresLeft,
                 storeVars, runs, call, distVars>>

\* Lines 485-504 for the balances and the task amount of the call.
SelectCall ==
  /\ pc = "call"
  /\ call.fn = "selectPool"
  /\ LET b == LedgerOf(call.balances)
         lamportsRequired == SolOfLamports(call.amount).ceil
     IN result' = [fn |-> "selectPool",
                   remainder |-> [k \in Pools |->
                                    Remainder(b, k, lamportsRequired)],
                   poolToUse |-> PoolToUse(b, lamportsRequired),
                   mustSweep |-> MustSweep(b, lamportsRequired)]
  /\ CallDone

\* splitAmountRandomly(total / 1e9, numParts) with the first numParts - 1
\* draws of the call.
SplitCall ==
  /\ pc = "call"
  /\ call.fn = "split"
  /\ result' = [fn |-> "split",
                parts |-> splitAmountRandomly(call.total, call.numParts,
                            SubSeq(call.draws, 1, call.numParts - 1))]
  /\ CallDone

\* Lines 258-289 for one destination: its planned amount and its chunks.
PlanCall ==
  /\ pc = "call"
  /\ call.fn = "plan"
  /\ LET n == NeededLamports(call.targetBalance, call.balance)
         numChunks == NumChunks(n, call.drawn)
     IN result' = [fn |-> "plan", neededLamports |-> n,
                   chunks |-> IF n = 0 THEN << >>
                              ELSE splitAmountRandomly(n, numChunks,
                                     SubSeq(call.draws, 1, numChunks - 1))]
  /\ CallDone

\* existingWallets of lines 138-141: the persisted accounts, or none when
\* loadWalletsFromFile throws.
ExistingWallets(persisted, readable) ==
  IF readable THEN [k \in 1..persisted |-> k] ELSE << >>

\* The key pairs safeGenerateAndSaveWallet("pool") makes, none of them a
\* persisted one.
GeneratedWallets(howMany) == [i \in 1..howMany |-> MaxPersisted + i]

\* getOrGenerateWallets(count, "pool", filePath), lines 142-153.
getOrGenerateWallets(count, persisted, readable) ==
  LET existingWallets == ExistingWallets(persisted, readable)
  IN IF Len(existingWallets) >= count
     THEN SubSeq(existingWallets, 1, count)
     ELSE existingWallets \o GeneratedWallets(count - Len(existingWallets))

PoolsCall ==
  /\ pc = "call"
  /\ call.fn = "getOrGenerateWallets"
  /\ result' = [fn |-> "getOrGenerateWallets",
                wallets |-> getOrGenerateWallets(call.count, call.persisted,
                                                 call.readable)]
  /\ CallDone

\* The loops of lines 27-40 and 95-115 from attempt nth on, with the
\* given number of failures still to come: every failure is caught, slept
\* on and followed by the next attempt; the first success is returned.
RECURSIVE RetryLoop(_, _, _, _)
RetryLoop(fn, nth, failures, sleeps) ==
  IF failures = 0
  THEN [fn |-> fn, attempts |-> nth, sleeps |-> sleeps, returned |-> TRUE]
  ELSE RetryLoop(fn, nth + 1, failures - 1,
                 Append(sleeps, IF fn = "sendSol" THEN SendSleepTime(nth)
                                ELSE RpcSleepTime(nth)))

RetryCall ==
  /\ pc = "call"
  /\ call.fn \in {"withRpcRetry", "sendSol"}
  /\ result' = RetryLoop(call.fn, 1, call.failures, << >>)
  /\ CallDone

\* Sum of the first k entries of a sequence of amounts.
RECURSIVE SumOf(_, _)
SumOf(amounts, k) ==
  IF k = 0 THEN 0 ELSE SumOf(amounts, k - 1) + amounts[k]

\* randomSplit (config.ts lines 359-378) with the weights drawn: every part
\* but the last is its weighted share, rounded down, or 1 when that is 0;
\* the last part is what remains of the total.
randomSplit(total, weights) ==
  LET parts == Len(weights)
      weightSum == SumOf(weights, parts)
      share(i) == (total * weights[i]) \div weightSum
      amount(i) == IF share(i) > 0 THEN share(i) ELSE 1
      given == [j \in 1..(parts - 1) |-> amount(j)]
  IN [i \in 1..parts |->
        IF i = parts THEN total - SumOf(given, parts - 1) ELSE amount(i)]

\* Lines 741-746 and 760: the amounts of the pairs that are sent.
PairAmounts(splits) ==
  SelectSeq(splits, LAMBDA a : a >= MIN_DISTRIBUTABLE_TOKENS)

\* Lines 695-746 for an acquired total and the weights of the call.
SplitTokensCall ==
  /\ pc = "call"
  /\ call.fn = "randomSplit"
  /\ call.total >= MIN_DISTRIBUTABLE_TOKENS
  /\ LET splits == randomSplit(call.total, call.weights)
     IN result' = [fn |-> "randomSplit", splits |-> splits,
                   amounts |-> PairAmounts(splits)]
  /\ CallDone

\* Lines 607-608.
ClaimedLamports(preClaimBalance, postClaimBalance) ==
  IF postClaimBalance - preClaimBalance > 0
  THEN postClaimBalance - preClaimBalance
  ELSE 0

\* Line 614.
Cap(capLamports, lamportsBalance) ==
  IF capLamports > 0 THEN capLamports ELSE lamportsBalance

\* Lines 616-617.
AvailableForSpend(claimedLamports, vaultAvailable, cap) ==
  IF claimedLamports > 0 THEN claimedLamports ELSE Min(vaultAvailable, cap)

\* Mutant of SpendLamports: the cap is left out of the minimum.
SpendUncapped(lamportsBalance, capLamports, vaultAvailable, claimedLamports) ==
  Min(lamportsBalance,
      Min(vaultAvailable,
          AvailableForSpend(claimedLamports, vaultAvailable,
                            Cap(capLamports, lamportsBalance))))

\* Lines 624-629.
SpendLamports(lamportsBalance, capLamports, vaultAvailable, claimedLamports) ==
  LET cap == Cap(capLamports, lamportsBalance)
  IN Min(Min(lamportsBalance, cap),
         Min(vaultAvailable,
             AvailableForSpend(claimedLamports, vaultAvailable, cap)))

\* No buyback is built: the iteration is over at line 632.
NoBuyback == -1

\* Lines 571-641 for the readings of the call: the vault has reached the
\* trigger; solAmount is what the buyback is built with, and the iteration
\* goes on to the buyback and the distribution only with a positive spend.
SpendCall ==
  /\ pc = "call"
  /\ call.fn = "spend"
  /\ call.vaultLamports >= call.triggerLamports
  /\ LET spendLamports ==
           SpendLamports(call.lamportsBalance, call.capLamports,
                         call.vaultLamports,
                         ClaimedLamports(call.preClaimBalance,
                                         call.postClaimBalance))
     IN result' = [fn |-> "spend", spendLamports |-> spendLamports,
                   solAmount |-> IF spendLamports <= 0 THEN NoBuyback
                                 ELSE spendLamports,
                   next |-> IF spendLamports <= 0 THEN "top" ELSE "buy"]
  /\ CallDone

CallNext ==
  \/ RetryCall
  \/ SpendCall
  \/ SplitTokensCall
  \/ SelectCall
  \/ SplitCall
  \/ PlanCall
  \/ PoolsCall

CallSpec == CallInit /\ [][CallNext]_vars

\* ================================== the funding stage, over many ledgers
\* What a pool account and a source account hold when the run starts.  With
\* one destination asking for 500 lamports the pools need 53900: 43900 is
\* the least aggregate the dust tolerance accepts, 38639 leaves a shortfall
\* of 15261, and 29161 is that shortfall plus fee plus rent reserve.
FundPoolChoices == {0, 38639, 43899, 43900}
FundSourceChoices == {0, 29160, 29161, 1000000}

\* Both lists and the funding map are loaded; the first destination asks for
\* 500 lamports, any other for 40522 or for nothing.
FundInit ==
  /\ pc = "plan"
  /\ sourceWallets = AllOf(Sources)
  /\ targetWallets = AllOf(Targets)
  /\ fundingTargets \in [Targets -> {NoTarget, 500, 40522}]
  /\ fundingTargets[1] = 500
  /\ \A t \in Targets \ {1} : fundingTargets[t] # 500
  /\ peelMap = [t \in Targets |-> 0]
  /\ \E pools \in [Pools -> FundPoolChoices],
        sources \in [Sources -> FundSourceChoices] :
       bal = [a \in Accounts |->
                CASE a[1] = "source" -> sources[a[2]]
                  [] a[1] = "pool" -> pools[a[2]]
                  [] OTHER -> 0]
  /\ peelFile = [t \in Targets |-> 0]
  /\ keysGenerated = 0
  /\ runs = 1
  /\ call = NoCall
  /\ Fresh
  /\ DistIdle

\* The steps of a run from the plan to the end of the funding stage.
Funding ==
  \/ PlanTarget
  \/ PlanDone
  \/ CheckPools
  \/ FundFromSource
  \/ FundSent
  \/ SendSolConfirmed
  \/ SendSolRetry
  \/ MainExit

FundSpec == FundInit /\ [][Funding]_vars

\* ==================================== the plan, over many deficits
\* Target balances of the funding map: below one minimum chunk, between two
\* and three, and above four.
PlanTargetChoices == {NoTarget, 500, 40522, 60000}
\* What a destination holds: nothing, a little, or more than it asks for.
PlanBalanceChoices == {0, 100, 50000}

\* Both lists and the funding map are loaded; the peel map file either does
\* not exist or names a peel account for every destination.
PlanInit ==
  /\ pc = "plan"
  /\ sourceWallets = AllOf(Sources)
  /\ targetWallets = AllOf(Targets)
  /\ fundingTargets \in [Targets -> PlanTargetChoices]
  /\ \E held \in [Targets -> PlanBalanceChoices] :
       bal = [a \in Accounts |->
                CASE a[1] = "source" -> SourceBalance
                  [] a[1] = "target" -> held[a[2]]
                  [] OTHER -> 0]
  /\ \E mapped \in BOOLEAN :
       /\ peelFile = [t \in Targets |-> IF mapped THEN t ELSE 0]
       /\ peelMap = peelFile
       /\ keysGenerated = IF mapped THEN NumTargets ELSE 0
  /\ runs = 1
  /\ call = NoCall
  /\ Fresh
  /\ DistIdle

\* The planning loop and the end of a run that has nothing to do.
Planning ==
  \/ PlanTarget
  \/ PlanDone
  \/ MainExit

PlanSpec == PlanInit /\ [][Planning]_vars

\* ================= the funding stage, over a ledger that answers late
\* sendAndConfirmTransaction throws although the network accepted the
\* transaction (the confirmation timed out): the transfer is applied, and
\* the catch of lines 100-114 sleeps and submits a new one.
SendSolLateError ==
  /\ pc = "sendSol"
  /\ bal[send.from] >= send.lamports + FEE
  /\ failuresLeft > 0
  /\ failuresLeft' = failuresLeft - 1
  /\ bal' = Transfer(bal, send.from, send.to, send.lamports)
  /\ txLog' = Append(txLog, [from |-> send.from, to |-> send.to,
                             lamports |-> send.lamports])
  /\ IF send.to[1] = "target"
     THEN /\ delivered' = [delivered EXCEPT ![send.to[2]] = @ + send.lamports]
          /\ firstPaidAt' =
               IF send.to[2] \in DOMAIN firstPaidAt THEN firstPaidAt
               ELSE (send.to[2] :> now) @@ firstPaidAt
     ELSE UNCHANGED <<delivered, firstPaidAt>>
  /\ now + SendSleepTime(send.attempt) <= MaxClock
  /\ now' = now + SendSleepTime(send.attempt)
  /\ send' = [send EXCEPT !.attempt = @ + 1]
  /\ UNCHANGED <<pc, sig, inputVars, planVars, stageVars, schedVars, execVars,
                 cleanVars, endVars, storeVars, harnessVars, distVars>>

\* The steps of a run from the plan to the end of the funding stage, with
\* the late answers of the ledger.
LateFunding ==
  \/ Funding
  \/ SendSolLateError

LateSpec == FundInit /\ [][LateFunding]_vars

\* ============================ the cleanup, over a ledger that may fail
\* What a pool account holds when the cleanup starts: nothing, exactly the
\* fee, one lamport more, or what a job left.
SweepPoolChoices == {0, 5000, 5001, 20000}

\* The withdrawal stage is over: the queue is empty and the loop of line 620
\* begins.
SweepInit ==
  /\ pc = "cleanup"
  /\ sourceWallets = AllOf(Sources)
  /\ targetWallets = AllOf(Targets)
  /\ fundingTargets = [t \in Targets |-> 500]
  /\ peelMap = [t \in Targets |-> t]
  /\ \E pools \in [Pools -> SweepPoolChoices] :
       bal = [a \in Accounts |->
                IF a[1] = "pool" THEN pools[a[2]] ELSE 0]
  /\ peelFile = peelMap
  /\ keysGenerated = NumTargets
  /\ runs = 1
  /\ call = NoCall
  /\ Fresh
  /\ DistIdle

\* The steps of the cleanup that the process takes by itself.
SweepSteps ==
  \/ CleanupPool
  \/ CleanupSwept
  \/ CleanupDone
  \/ MainExit

\* The cleanup with the answers of the ledger to a submitted transfer.
Sweeping ==
  \/ SweepSteps
  \/ SendSolConfirmed
  \/ SendSolRetry

\* The process is never suspended for good; the ledger owes no answer, and a
\* submission that is not confirmed stays in the loop of lines 95-115.
SweepSpec == SweepInit /\ [][Sweeping]_vars /\ WF_vars(SweepSteps)

\* ============================ the distribution loop (src/src/config.ts)
MAX_SEND_RETRIES == 3
MAX_TARGETS == 1000
DISTRIBUTION_BATCH_SIZE == 20
FEE_ESTIMATE == 5000
\* Answer of the ledger to getMinimumBalanceForRentExemption(165).
MIN_ATA_RENT == 2039280

mixerVars == <<pc, now, inputVars, planVars, stageVars, schedVars, execVars,
               sendVars, cleanVars, ledgerVars, endVars, failuresLeft,
               storeVars, harnessVars>>

\* totalLamportsNeeded of line 785.
TotalLamportsNeeded == FEE_ESTIMATE + MIN_ATA_RENT * 2

\* What conn.getBalance(dev.publicKey) answers at line 754, sampled.
DevBalanceChoices == {0, TotalLamportsNeeded, 2 * TotalLamportsNeeded}

EmptyState == [m \in Mints |-> {}]

\* loadState (lines 323-334): the persisted record, or a fresh one when the
\* file is missing, unreadable or malformed.
loadState(file, readable) == IF readable THEN file ELSE EmptyState

\* The orders shuffleInPlace can leave the members of S in.
Shuffles(S) ==
  {f \in [1..Cardinality(S) -> S] :
     \A i \in 1..Cardinality(S) : \A j \in 1..Cardinality(S) :
       i # j => f[i] # f[j]}

\* selected of line 735 for a shuffled list of eligible recipients.
Selected(eligible, recipientCount) ==
  SubSeq(eligible, 1,
         Min(Min(Len(eligible), MAX_TARGETS),
             Min(DISTRIBUTION_BATCH_SIZE, recipientCount)))

\* Lines 545-562: the loop starts for a mint, with a new pause switch or
\* one the controller has just resumed.
DistStart ==
  /\ dpc = "stopped"
  /\ distRuns < MaxDistRuns
  /\ distRuns' = distRuns + 1
  /\ \E mint \in Mints, readable \in BOOLEAN :
       /\ mintKey' = mint
       /\ state' = loadState(stateFile, readable)
       /\ sentSet' = loadState(stateFile, readable)[mint]
  /\ paused' = FALSE
  /\ dpc' = "top"
  /\ UNCHANGED <<pausedWhile, stateFile, pairs, sendAttempt,
                 availableLamports, paid, mixerVars, ctlVars>>

\* The process is stopped or dies: its memory is gone, the state file and
\* what the network accepted remain.
DistCrash ==
  /\ dpc # "stopped"
  /\ dpc' = "stopped"
  /\ state' = EmptyState
  /\ sentSet' = {}
  /\ mintKey' = 0
  /\ pairs' = << >>
  /\ sendAttempt' = 0
  /\ availableLamports' = 0
  /\ UNCHANGED <<paused, pausedWhile, stateFile, paid, distRuns, mixerVars, ctlVars>>

\* PauseSwitch.pause() and resume() (control.ts lines 7-13), called by the
\* operator at any moment.
DistPause ==
  /\ ~paused
  /\ paused' = TRUE
  /\ pausedWhile' = IF dpc \in {"send", "attempt"} THEN "batch" ELSE "between"
  /\ UNCHANGED <<dpc, stateFile, state, sentSet, mintKey, pairs, sendAttempt,
                 availableLamports, paid, distRuns, mixerVars, ctlVars>>

DistResume ==
  /\ paused
  /\ paused' = FALSE
  /\ UNCHANGED <<dpc, pausedWhile, stateFile, state, sentSet, mintKey, pairs,
                 sendAttempt, availableLamports, paid, distRuns, mixerVars, ctlVars>>

\* Mutant of DistLoopTop: the pause switch is not looked at.
DistLoopTopIgnoresPause ==
  /\ dpc = "top"
  /\ \E vaultReachesTrigger \in BOOLEAN :
       dpc' = IF vaultReachesTrigger THEN "claim" ELSE "top"
  /\ UNCHANGED <<paused, pausedWhile, stateFile, state, sentSet, mintKey,
                 pairs, sendAttempt, availableLamports, paid, distRuns,
                 mixerVars, ctlVars>>

\* Lines 565-582: a paused loop sleeps and looks again; otherwise the vault
\* is read, and the iteration goes on when it holds the trigger amount.
DistLoopTop ==
  /\ dpc = "top"
  /\ IF paused
     THEN UNCHANGED dpc
     ELSE \E vaultReachesTrigger \in BOOLEAN :
            dpc' = IF vaultReachesTrigger THEN "claim" ELSE "top"
  /\ UNCHANGED <<paused, pausedWhile, stateFile, state, sentSet, mintKey,
                 pairs, sendAttempt, availableLamports, paid, distRuns,
                 mixerVars, ctlVars>>

\* Lines 584-605: claim the creator fees; a failed claim ends the iteration.
DistClaim ==
  /\ dpc = "claim"
  /\ \E claim \in {"sent", "nothingToCollect", "failed"} :
       dpc' = IF claim = "failed" THEN "top" ELSE "buy"
  /\ UNCHANGED <<paused, pausedWhile, stateFile, state, sentSet, mintKey,
                 pairs, sendAttempt, availableLamports, paid, distRuns,
                 mixerVars, ctlVars>>

\* Lines 607-699: the buyback; nothing to spend, a failed buyback or too few
\* tokens end the iteration.
DistBuyback ==
  /\ dpc = "buy"
  /\ \E buy \in {"bought", "nothingToSpend", "failed", "tooFewTokens"} :
       dpc' = IF buy = "bought" THEN "select" ELSE "top"
  /\ UNCHANGED <<paused, pausedWhile, stateFile, state, sentSet, mintKey,
                 pairs, sendAttempt, availableLamports, paid, distRuns,
                 mixerVars, ctlVars>>

\* Lines 704-757: fetch and shuffle the recipients, keep those not in
\* sentSet, and pair them with amounts; the last amount of randomSplit is
\* the only one that can fall below the minimum (MIN_DISTRIBUTABLE_TOKENS
\* at its default 1) and be filtered out.
DistSelect ==
  /\ dpc = "select"
  /\ \E recipients \in SUBSET Recipients :
     \E eligible \in Shuffles(recipients \ sentSet) :
     \E lastTooSmall \in BOOLEAN, balance \in DevBalanceChoices :
       LET selected == Selected(eligible, Cardinality(recipients))
           kept == IF lastTooSmall
                   THEN SubSeq(selected, 1, Len(selected) - 1)
                   ELSE selected
       IN IF Len(kept) = 0
          THEN /\ dpc' = "top"
               /\ UNCHANGED <<pairs, availableLamports>>
          ELSE /\ dpc' = "send"
               /\ pairs' = kept
               /\ availableLamports' = balance
  /\ UNCHANGED <<paused, pausedWhile, stateFile, state, sentSet, mintKey,
                 sendAttempt, paid, distRuns, mixerVars, ctlVars>>

\* Lines 759-792: the next pair; without the lamports for fee and rent the
\* recipient is skipped.
DistBeginSend ==
  /\ dpc = "send"
  /\ Len(pairs) > 0
  /\ IF availableLamports < TotalLamportsNeeded
     THEN /\ pairs' = Tail(pairs)
          /\ UNCHANGED <<dpc, sendAttempt, availableLamports>>
     ELSE /\ availableLamports' = availableLamports - TotalLamportsNeeded
          /\ sendAttempt' = 1
          /\ dpc' = "attempt"
          /\ UNCHANGED pairs
  /\ UNCHANGED <<paused, pausedWhile, stateFile, state, sentSet, mintKey,
                 paid, distRuns, mixerVars, ctlVars>>

\* Mutant of DistAttempt: the recipient is recorded whether the submission
\* returned or threw.
DistAttemptRecordsFailures ==
  /\ dpc = "attempt"
  /\ \E submission \in {"returned", "threw", "threwAccepted"} :
       /\ submission # "threw" => paid[mintKey][Head(pairs)] < MaxPaid
       /\ paid' = IF submission = "threw" THEN paid
                  ELSE [paid EXCEPT ![mintKey][Head(pairs)] = @ + 1]
       /\ IF submission = "returned" \/ sendAttempt >= MAX_SEND_RETRIES
          THEN /\ sentSet' = sentSet \cup {Head(pairs)}
               /\ pairs' = Tail(pairs)
               /\ sendAttempt' = 0
               /\ dpc' = "send"
          ELSE /\ sendAttempt' = sendAttempt + 1
               /\ UNCHANGED <<sentSet, pairs, dpc>>
  /\ UNCHANGED <<paused, pausedWhile, stateFile, state, mintKey,
                 availableLamports, distRuns, mixerVars, ctlVars>>

\* One attempt of sendWithRetry (lines 503-529) for the head of pairs, and
\* what follows it in the batch loop (lines 801-816).  sendTransaction
\* returns a signature, or throws; the network may have accepted a
\* transaction whose submission threw (a timed-out request).  A
\* returned signature puts the recipient into sentSet; the third throw is
\* rethrown (line 530) and caught at line 814.
DistAttempt ==
  /\ dpc = "attempt"
  /\ \E submission \in {"returned", "threw", "threwAccepted"} :
       /\ submission # "threw" => paid[mintKey][Head(pairs)] < MaxPaid
       /\ paid' = IF submission = "threw" THEN paid
                  ELSE [paid EXCEPT ![mintKey][Head(pairs)] = @ + 1]
       /\ IF submission = "returned"
          THEN /\ sentSet' = sentSet \cup {Head(pairs)}
               /\ pairs' = Tail(pairs)
               /\ sendAttempt' = 0
               /\ dpc' = "send"
          ELSE IF sendAttempt < MAX_SEND_RETRIES
          THEN /\ sendAttempt' = sendAttempt + 1
               /\ UNCHANGED <<sentSet, pairs, dpc>>
          ELSE /\ pairs' = Tail(pairs)
               /\ sendAttempt' = 0
               /\ dpc' = "send"
               /\ UNCHANGED sentSet
  /\ UNCHANGED <<paused, pausedWhile, stateFile, state, mintKey,
                 availableLamports, distRuns, mixerVars, ctlVars>>

\* Lines 819-822: the batch is over; the whole record is written with this
\* mint's entry replaced by sentSet.
DistPersist ==
  /\ dpc = "send"
  /\ Len(pairs) = 0
  /\ state' = [state EXCEPT ![mintKey] = sentSet]
  /\ stateFile' = [state EXCEPT ![mintKey] = sentSet]
  /\ dpc' = "top"
  /\ UNCHANGED <<paused, pausedWhile, sentSet, mintKey, pairs, sendAttempt,
                 availableLamports, paid, distRuns, mixerVars, ctlVars>>

\* No relay job is running beside the loop.
DistInit ==
  /\ pc = "noJob"
  /\ bal = [a \in Accounts |-> 0]
  /\ peelFile = [t \in Targets |-> 0]
  /\ keysGenerated = 0
  /\ runs = 0
  /\ call = NoCall
  /\ Unloaded
  /\ Fresh
  /\ DistIdle

\* The steps of one iteration of the loop.
DistIteration ==
  \/ DistLoopTop
  \/ DistClaim
  \/ DistBuyback
  \/ DistSelect
  \/ DistBeginSend
  \/ DistAttempt
  \/ DistPersist

Distributing ==
  \/ DistStart
  \/ DistCrash
  \/ DistPause
  \/ DistResume
  \/ DistIteration

DistSpec == DistInit /\ [][Distributing]_vars

\* ================== the DistributionController (src/src/utils/control.ts)
\* Calls of the controller's methods in one behaviour.
MaxCalls == 3

\* (err as Error)?.message of a rejected run (line 91).
RunFailure == "run failed"

\* The variables of a running loop, and those the controller never touches.
loopVars == <<dpc, state, sentSet, mintKey, pairs, sendAttempt,
              availableLamports, distRuns>>
restVars == <<stateFile, paid, mixerVars>>

\* A stop() whose run has settled is ready to return.
StopReady == stopCall.at = "awaiting" /\ ~runPromise

\* One more call of a method of the controller.  The handlers of a settled
\* promise are microtasks: they run before the next call is served.
CtlCall(op) ==
  /\ settling = "none"
  /\ ~StopReady
  /\ calls < MaxCalls
  /\ calls' = calls + 1
  /\ lastCall' = op

\* runDistributionLoop is called (line 84) and reaches its loop (lines
\* 545-564).
RunDistributionLoop(mint, readable) ==
  /\ distRuns < MaxDistRuns
  /\ distRuns' = distRuns + 1
  /\ loops' = loops + 1
  /\ mintKey' = mint
  /\ state' = loadState(stateFile, readable)
  /\ sentSet' = loadState(stateFile, readable)[mint]
  /\ pairs' = << >>
  /\ sendAttempt' = 0
  /\ availableLamports' = 0
  /\ dpc' = "top"

\* Mutant of CtlStart: the test of line 72 is missing.
CtlStartUnguarded ==
  /\ CtlCall("start")
  /\ \E mint \in Mints, readable \in BOOLEAN :
       /\ currentMint' = mint
       /\ paused' = FALSE
       /\ abortController' = "live"
       /\ startedAt' = calls + 1
       /\ lastError' = "null"
       /\ devWallet' = TRUE
       /\ runPromise' = TRUE
       /\ RunDistributionLoop(mint, readable)
  /\ UNCHANGED <<pausedWhile, settling, stopCall, restVars>>

\* start() (lines 71-99).  With a run held it only answers.  Else the mint is
\* the one provided or the configured one (resolveMint throws without
\* either), the fields are set, the dev wallet is loaded unless restVars
\* (loadDevWallet may throw), and runDistributionLoop is called; what it
\* does before its loop (lines 545-562) may reject the run.
CtlStart ==
  /\ CtlCall("start")
  /\ IF runPromise
     THEN UNCHANGED <<paused, pausedWhile, loopVars, restVars, runPromise,
                      abortController, lastError, startedAt, currentMint,
                      devWallet, loops, settling, stopCall>>
     ELSE \E provided \in Mints \cup {0}, configured \in BOOLEAN,
             loads \in BOOLEAN, reachesLoop \in BOOLEAN,
             readable \in BOOLEAN :
            IF provided = 0 /\ ~configured
            THEN UNCHANGED <<paused, pausedWhile, loopVars, restVars, runPromise,
                             abortController, lastError, startedAt,
                             currentMint, devWallet, loops, settling,
                             stopCall>>
            ELSE /\ currentMint' = IF provided # 0 THEN provided ELSE 1
                 /\ paused' = FALSE
                 /\ abortController' = "live"
                 /\ startedAt' = calls + 1
                 /\ lastError' = "null"
                 /\ IF ~devWallet /\ ~loads
                    THEN UNCHANGED <<loopVars, runPromise, devWallet, loops,
                                     settling>>
                    ELSE /\ devWallet' = TRUE
                         /\ runPromise' = TRUE
                         /\ IF reachesLoop
                            THEN /\ RunDistributionLoop(currentMint', readable)
                                 /\ UNCHANGED settling
                            ELSE /\ settling' = "rejected"
                                 /\ UNCHANGED <<loopVars, loops>>
                 /\ UNCHANGED <<pausedWhile, restVars, stopCall>>

\* pause() and resume() (lines 101-109).
CtlPause ==
  /\ CtlCall("pause")
  /\ paused' = TRUE
  /\ pausedWhile' = IF paused THEN pausedWhile
                    ELSE IF dpc \in {"send", "attempt"} THEN "batch"
                    ELSE "between"
  /\ UNCHANGED <<loopVars, restVars, runPromise, abortController, lastError,
                 startedAt, currentMint, devWallet, loops, settling,
                 stopCall>>

CtlResume ==
  /\ CtlCall("resume")
  /\ paused' = FALSE
  /\ UNCHANGED <<pausedWhile, loopVars, restVars, runPromise, abortController,
                 lastError, startedAt, currentMint, devWallet, loops,
                 settling, stopCall>>

\* stop() up to its await (lines 111-117): the signal is aborted, and the
\* call waits for the run it found, or answers at once.
CtlStop ==
  /\ CtlCall("stop")
  /\ stopCall.at # "awaiting"
  /\ abortController' = IF abortController = "null" THEN "null"
                        ELSE "aborted"
  /\ stopCall' = IF runPromise
                 THEN [at |-> "awaiting", run |-> startedAt,
                       running |-> FALSE]
                 ELSE [at |-> "returned", run |-> 0, running |-> runPromise]
  /\ UNCHANGED <<paused, pausedWhile, loopVars, restVars, runPromise, lastError,
                 startedAt, currentMint, devWallet, loops, settling>>

\* Line 118: the run stop() waited for has settled; status() is returned.
CtlStopReturns ==
  /\ StopReady
  /\ stopCall' = [at |-> "returned", run |-> stopCall.run,
                  running |-> runPromise]
  /\ UNCHANGED <<paused, pausedWhile, loopVars, restVars, runPromise,
                 abortController, lastError, startedAt, currentMint,
                 devWallet, loops, settling, calls, lastCall>>

\* An await of the loop outside its try blocks throws (getBalance of lines
\* 584, 607, 610 and 754, fetchRecipientWallets, persistState): the loop is
\* over and its promise is rejected.
DistThrows ==
  /\ \/ dpc \in {"claim", "buy", "select"}
     \/ dpc = "send" /\ Len(pairs) = 0
  /\ settling = "none"
  /\ dpc' = "stopped"
  /\ state' = EmptyState
  /\ sentSet' = {}
  /\ mintKey' = 0
  /\ pairs' = << >>
  /\ sendAttempt' = 0
  /\ availableLamports' = 0
  /\ loops' = loops - 1
  /\ settling' = "rejected"
  /\ UNCHANGED <<paused, pausedWhile, distRuns, restVars, runPromise,
                 abortController, lastError, startedAt, currentMint,
                 devWallet, stopCall, calls, lastCall>>

\* The catch of lines 90-92.
CtlCatch ==
  /\ settling = "rejected"
  /\ lastError' = RunFailure
  /\ settling' = "caught"
  /\ UNCHANGED <<paused, pausedWhile, loopVars, restVars, runPromise,
                 abortController, startedAt, currentMint, devWallet, loops,
                 stopCall, calls, lastCall>>

\* The finally of lines 92-96.
CtlFinally ==
  /\ settling = "caught"
  /\ runPromise' = FALSE
  /\ abortController' = "null"
  /\ currentMint' = 0
  /\ settling' = "none"
  /\ UNCHANGED <<paused, pausedWhile, loopVars, restVars, lastError, startedAt,
                 devWallet, loops, stopCall, calls, lastCall>>

\* What the controller does once a run has been rejected, and the return
\* of a stop() whose run has settled.
CtlSettles ==
  \/ CtlCatch
  \/ CtlFinally
  \/ CtlStopReturns

Controlling ==
  \/ CtlStart
  \/ CtlPause
  \/ CtlResume
  \/ CtlStop
  \/ CtlSettles
  \/ DistThrows
  \/ DistIteration

ControllerSpec == DistInit /\ [][Controlling]_vars

\* The controller over a loop whose iterations end before the recipients
\* are fetched (no fees to claim, a failed claim, nothing to spend, a failed
\* buyback, too few tokens), without calls of pause() and resume().
LoopIdles ==
  \/ DistLoopTop
  \/ DistClaim
  \/ DistBuyback /\ dpc' = "top"

Stopping ==
  \/ CtlStart /\ dpc' \in {"stopped", "top"}
  \/ CtlStop
  \/ CtlSettles
  \/ DistThrows
  \/ LoopIdles

\* The event loop runs every job that is ready: the steps of the loop and
\* the handlers of a settled run.  Nothing obliges an await to throw.
StopSpec ==
  DistInit /\ [][Stopping]_vars
    /\ WF_vars(LoopIdles) /\ WF_vars(CtlSettles)

\* ======================================================== the claims
Abs(x) == IF x < 0 THEN -x ELSE x

FatalOutcomes ==
  TaskFailures \cup {"noWallets", "noFundingMap", "noSourceCovers"}

\* The destination of the task the scan is looking at.
ScannedTarget == pendingTasks[scanIdx].targetWallet

\* A task of a destination that is still locked at the current time.
LockedNow(t) ==
  /\ t \notin DOMAIN walletUnlockTimestamps
  /\ DOMAIN walletUnlockTimestamps # {}
  /\ now - LastUnlockTime(walletUnlockTimestamps) < MIN_TIME_BETWEEN_WALLETS_MS

\* C1: in a run that reached the end of cleanup, every destination with a
\* planned deficit received exactly that deficit from its peel account.
C1_DeliveredEqualsPlanned ==
  outcome = "completed" =>
    \A t \in Targets : needed[t] > 0 => delivered[t] = needed[t]

\* C2: when the pool -> peel transfer chosen by pool selection has been
\* applied, the chosen pool holds either nothing or at least the rent floor.
C2_PoolNeverLeftWithDust ==
  (pc = "hop1Done" /\ sig) =>
    \/ bal[Acct("pool", poolToUse)] = 0
    \/ bal[Acct("pool", poolToUse)] >= RENT_EXEMPTION

\* C3: when executeWithdrawalTask is about to return success (the sweep of
\* the peel account returned a signature), the peel account holds nothing.
C3_PeelEmptyAfterSuccess ==
  (pc = "hop2Done" /\ sig) =>
    bal[Acct("peel", pendingTasks[scanIdx].peelWallet)] = 0

\* C4: once a withdrawal task has failed, nothing more happens to the ledger
\* or the queue: no transfer is submitted or applied, no task is evaluated,
\* executed or removed, and the cleanup stage is not entered.
StopsAfterTaskFailure ==
  outcome \in TaskFailures =>
    /\ txLog' = txLog
    /\ bal' = bal
    /\ send' = send
    /\ pendingTasks' = pendingTasks
    /\ pc' \in {"returned", "exited"}

C4_JobStopsAfterTaskFailure == [][StopsAfterTaskFailure]_vars

C4_Witness ==
  /\ pc = "exited"
  /\ outcome \in TaskFailures
  /\ Len(pendingTasks) > 1
  /\ \E k \in Pools : bal[Acct("pool", k)] > FEE

\* C5: the process exits non-zero after every fatal end of the run, and zero
\* after a run that completed all stages.
C5_ExitStatusReflectsOutcome ==
  pc = "exited" =>
    /\ outcome \in FatalOutcomes => exitCode # 0
    /\ outcome = "completed" => exitCode = 0

\* C6: the unlock timestamps of any two distinct destinations in the
\* registry are at least MIN_TIME_BETWEEN_WALLETS_MS apart.
C6_UnlocksSeparated ==
  \A a \in DOMAIN walletUnlockTimestamps :
    \A b \in DOMAIN walletUnlockTimestamps :
      a # b =>
        Abs(walletUnlockTimestamps[a] - walletUnlockTimestamps[b])
          >= MIN_TIME_BETWEEN_WALLETS_MS

C6_Witness ==
  \E a \in DOMAIN walletUnlockTimestamps :
    \E b \in DOMAIN walletUnlockTimestamps :
      /\ a # b
      /\ walletUnlockTimestamps[a] > 0
      /\ walletUnlockTimestamps[b] > walletUnlockTimestamps[a]

\* C7 as stated: the first deliveries to any two distinct destinations are
\* at least MIN_TIME_BETWEEN_WALLETS_MS apart.
C7_FirstPaymentsSeparated ==
  \A a \in DOMAIN firstPaidAt :
    \A b \in DOMAIN firstPaidAt :
      a # b => Abs(firstPaidAt[a] - firstPaidAt[b])
                 >= MIN_TIME_BETWEEN_WALLETS_MS

\* C7 as amended: the first delivery to a destination comes at least
\* MIN_TIME_BETWEEN_WALLETS_MS after the unlock timestamp of every
\* destination that unlocked before it.
C7_FirstPaymentAfterEarlierUnlocks ==
  \A a \in DOMAIN walletUnlockTimestamps :
    \A b \in DOMAIN firstPaidAt :
      (a # b /\ walletUnlockTimestamps[a] < walletUnlockTimestamps[b]) =>
        firstPaidAt[b] - walletUnlockTimestamps[a]
          >= MIN_TIME_BETWEEN_WALLETS_MS

C7_Witness ==
  \E a \in DOMAIN firstPaidAt :
    \E b \in DOMAIN firstPaidAt :
      /\ a # b
      /\ walletUnlockTimestamps[a] < walletUnlockTimestamps[b]
      /\ firstPaidAt[b] - firstPaidAt[a] < MIN_TIME_BETWEEN_WALLETS_MS

\* C8: a task whose destination is locked when the scan evaluates it is not
\* executed: it stays in the queue, the registry is unchanged and nothing is
\* sent.
LockedTaskPassedOver ==
  (pc = "scan" /\ scanIdx >= 1 /\ LockedNow(ScannedTarget)) =>
    /\ pc' = "scan"
    /\ pendingTasks' = pendingTasks
    /\ walletUnlockTimestamps' = walletUnlockTimestamps
    /\ send' = send
    /\ txLog' = txLog

C8_LockedTaskStaysPending == [][LockedTaskPassedOver]_vars

C8_Witness ==
  /\ pc = "scan"
  /\ \E j \in (scanIdx + 1)..Len(pendingTasks) :
       LockedNow(pendingTasks[j].targetWallet)
  /\ now - LastUnlockTime(walletUnlockTimestamps) = SEPARATION_SLEEP_MS

\* C9: an entry of the unlock registry is never removed or changed, and a
\* task of a destination in the registry is executed whenever the scan
\* evaluates it, however recent the last unlock.
EntryKeptAndTaskReady ==
  /\ \A t \in DOMAIN walletUnlockTimestamps :
       /\ t \in DOMAIN walletUnlockTimestamps'
       /\ walletUnlockTimestamps'[t] = walletUnlockTimestamps[t]
  /\ (pc = "scan" /\ scanIdx >= 1
        /\ ScannedTarget \in DOMAIN walletUnlockTimestamps) =>
       (pc' = "select" /\ pendingTasks' = pendingTasks)

C9_UnlockedStaysUnlocked == [][EntryKeptAndTaskReady]_vars

C9_Witness ==
  /\ pc = "select"
  /\ attempt = 0
  /\ delivered[ScannedTarget] > 0
  /\ now > walletUnlockTimestamps[ScannedTarget]
  /\ now - LastUnlockTime(walletUnlockTimestamps) < MIN_TIME_BETWEEN_WALLETS_MS

\* The first pool, in list order, that an exact-amount transfer would leave
\* with at least the rent floor (0: none).
FirstLeavingRent(b, lamportsRequired) ==
  IF \E k \in Pools : LeavesRent(b, k, lamportsRequired)
  THEN CHOOSE k \in Pools :
         /\ LeavesRent(b, k, lamportsRequired)
         /\ \A j \in 1..(k - 1) : ~LeavesRent(b, j, lamportsRequired)
  ELSE 0

\* C10: while the first hop chosen by pool selection is being submitted, the
\* choice is the one the two-tier rule gives for the balances it read: an
\* exact-amount transfer from the first pool that keeps the rent floor if
\* there is one, a sweep only if there is none.
C10_ExactPreferredOverSweep ==
  (pc = "sendSol" /\ send.ret = "hop1Done") =>
    LET lamportsRequired == pendingTasks[scanIdx].amountSol.ceil
    IN IF FirstLeavingRent(bal, lamportsRequired) # 0
       THEN /\ ~mustSweep
            /\ poolToUse = FirstLeavingRent(bal, lamportsRequired)
       ELSE mustSweep

\* The selection of the scenario: pool balances [3000, 50000], fee 5000,
\* rent floor 8900, task amount 40000.
ScenarioSelected ==
  /\ pc = "called"
  /\ call.fn = "selectPool"
  /\ call.balances[1] = 3000
  /\ call.balances[2] = 50000
  /\ call.amount = 40000
  /\ FEE = 5000
  /\ RENT_EXEMPTION = 8900

\* C11 as stated: in the scenario pool 1's remainder is negative, pool 2's
\* remainder is 6100, and pool 2 is selected for a full sweep.
C11_ScenarioRemainder6100 ==
  ScenarioSelected =>
    /\ result.remainder[1] < 0
    /\ result.remainder[2] = 6100
    /\ result.poolToUse = 2
    /\ result.mustSweep

\* C11 as amended: in the scenario pool 1's remainder is negative, pool 2's
\* remainder is 50000 - 40000 - 5000 = 5000, which lies in [0, rent floor),
\* and pool 2 is selected for a full sweep.
C11_ScenarioSweepsPool2 ==
  ScenarioSelected =>
    /\ result.remainder[1] < 0
    /\ result.remainder[2] = 5000
    /\ 0 <= result.remainder[2] /\ result.remainder[2] < RENT_EXEMPTION
    /\ result.poolToUse = 2
    /\ result.mustSweep

C11_Witness == ScenarioSelected /\ result.fn = "selectPool"

\* executeWithdrawalTask is scanning and no pool passes either test.
NoPoolQualifies ==
  /\ pc = "select"
  /\ \A k \in Pools :
       ~(LeavesRent(bal, k, pendingTasks[scanIdx].amountSol.ceil)
           \/ LeavesDust(bal, k, pendingTasks[scanIdx].amountSol.ceil))

\* C12: while no pool qualifies, executeWithdrawalTask scans at most 15
\* times, sleeps min(4000 * k, 60000) ms after the k-th scan (never less than
\* after the scan before, never more than the cap), submits no transfer, and
\* after the 15th scan returns failure, which ends the job.
UnderfundedScan ==
  NoPoolQualifies =>
    /\ txLog' = txLog /\ bal' = bal /\ send' = send
    /\ attempt <= MAX_POOL_ATTEMPTS
    /\ IF attempt < MAX_POOL_ATTEMPTS
       THEN /\ attempt' = attempt + 1
            /\ pc' = "select"
            /\ now' - now = Min(4000 * attempt', 60000)
            /\ now' - now >= Min(4000 * attempt, 60000)
            /\ now' - now <= 60000
       ELSE /\ pc' = "returned"
            /\ outcome' \in TaskFailures
            /\ now' = now

Applied == txLog'[Len(txLog')]

\* C13: a task's two transfers are applied in the order pool -> peel, then
\* peel -> destination, with no other transfer between them, and the second
\* one moves the whole balance of the peel account less the flat fee.
TwoHopsThenFullSweep ==
  Len(txLog') = Len(txLog) + 1 =>
    /\ Applied.to[1] = "target" =>
         /\ Len(txLog) > 0
         /\ txLog[Len(txLog)].from[1] = "pool"
         /\ txLog[Len(txLog)].to = Applied.from
         /\ Applied.lamports = bal[Applied.from] - FEE
    /\ (Len(txLog) > 0 /\ txLog[Len(txLog)].to[1] = "peel") =>
         /\ Applied.from = txLog[Len(txLog)].to
         /\ Applied.to[1] = "target"

C13_TwoHopsInOrderFullSweep == [][TwoHopsThenFullSweep]_vars

\* The stage a transfer belongs to, by the roles of its two accounts:
\* 2 funding, 3 shuffle, 4 withdrawal, 5 cleanup.
StageOf(from, to) ==
  CASE from[1] = "source" -> 2
    [] from[1] = "pool" /\ to[1] = "pool" -> 3
    [] from[1] = "pool" /\ to[1] = "source" -> 5
    [] OTHER -> 4

\* C14: the stages run in order.  A funding transfer is submitted only after
\* the planning loop ended, a shuffle transfer only after funding and never
\* followed by a funding transfer, a withdrawal transfer only after the last
\* shuffle round, and a cleanup sweep only with the task queue empty; the
\* transfers applied so far are in stage order.
C14_StagesInOrder ==
  /\ \A i \in 1..Len(txLog) : \A j \in i..Len(txLog) :
       StageOf(txLog[i].from, txLog[i].to) <= StageOf(txLog[j].from, txLog[j].to)
  /\ pc = "sendSol" =>
       /\ \A i \in 1..Len(txLog) :
            StageOf(txLog[i].from, txLog[i].to) <= StageOf(send.from, send.to)
       /\ StageOf(send.from, send.to) >= 2 => planIdx > Len(targetWallets)
       /\ StageOf(send.from, send.to) >= 3 => fundIdx <= Len(sourceWallets)
       /\ StageOf(send.from, send.to) >= 4 => shuffleRound = SHUFFLE_ROUNDS
       /\ StageOf(send.from, send.to) = 4 => Len(pendingTasks) > 0
       /\ StageOf(send.from, send.to) = 5 => Len(pendingTasks) = 0

C14_Witness ==
  /\ pc = "sendSol"
  /\ StageOf(send.from, send.to) = 5
  /\ \E i \in 1..Len(txLog) : StageOf(txLog[i].from, txLog[i].to) = 2
  /\ \E i \in 1..Len(txLog) : StageOf(txLog[i].from, txLog[i].to) = 3
  /\ \E i \in 1..Len(txLog) : StageOf(txLog[i].from, txLog[i].to) = 4

InputErrors == {"noWallets", "noFundingMap"}

\* C20: a run that found the source list or the destination list empty, or
\* could not read the funding map, has ended in planning: nothing was
\* planned, and no transfer was submitted or applied.
C20_InputErrorMovesNoFunds ==
  /\ (pc # "load" /\ (Len(sourceWallets) = 0 \/ Len(targetWallets) = 0)) =>
       outcome = "noWallets"
  /\ outcome \in InputErrors =>
       /\ pc \in {"returned", "exited"}
       /\ txLog = << >>
       /\ send = NoSend
       /\ pendingTasks = << >>
       /\ planIdx = 1

C20_Witness ==
  /\ pc = "exited"
  /\ outcome = "noFundingMap"
  /\ Len(sourceWallets) > 0
  /\ \E s \in Sources : bal[Acct("source", s)] > 0
  /\ \E k \in Pools : bal[Acct("pool", k)] > 0

WithdrawalOver ==
  \/ pc = "cleanup" /\ Len(pendingTasks) = 0
  \/ pc = "returned" /\ outcome \in TaskFailures

\* C15: a withdrawal stage that has started ends: the queue empties and
\* cleanup begins, or a task fails and the job returns.
C15_WithdrawalTerminates == (pc = "scan") ~> WithdrawalOver

\* A pass found every remaining destination locked and slept before the
\* next one, and the stage ended with the queue empty all the same.
C15_Witness ==
  /\ pc = "cleanup"
  /\ Len(pendingTasks) = 0
  /\ Cardinality(DOMAIN walletUnlockTimestamps) > 1
  /\ \E t \in DOMAIN walletUnlockTimestamps :
       walletUnlockTimestamps[t] >= MIN_TIME_BETWEEN_WALLETS_MS

\* C16: across runs, a destination that has been bound to a peel account in
\* the persisted map keeps that binding (also through a run that cannot read
\* the map), its tasks carry that account, and no two destinations share one.
PeelBindingKept ==
  /\ \A t \in Targets : peelFile[t] # 0 => peelFile'[t] = peelFile[t]
  /\ \A i \in 1..Len(pendingTasks') :
       peelFile[pendingTasks'[i].targetWallet] # 0 =>
         pendingTasks'[i].peelWallet = peelFile[pendingTasks'[i].targetWallet]
  /\ \A t \in Targets : \A u \in Targets :
       (t # u /\ peelFile'[t] # 0) => peelFile'[t] # peelFile'[u]

C16_PeelBindingIdempotent == [][PeelBindingKept]_vars

\* C17: every task the planner has emitted carries at least minChunk
\* (rent-exemption floor + flat fee).
C17_EveryTaskAtLeastMinChunk ==
  \A i \in 1..Len(pendingTasks) :
    pendingTasks[i].amountSol.ceil >= minChunkLamports

RECURSIVE SumFloor(_, _)
SumFloor(parts, k) ==
  IF k = 0 THEN 0 ELSE parts[k].floor + SumFloor(parts, k - 1)

RECURSIVE SumCeil(_, _)
SumCeil(parts, k) ==
  IF k = 0 THEN 0 ELSE parts[k].ceil + SumCeil(parts, k - 1)

\* C18: splitAmountRandomly(d, n) returns n parts, each greater than 0,
\* whose sum is within one lamport of d, whatever the draws.
C18_SplitPositiveAndExact ==
  (pc = "called" /\ call.fn = "split") =>
    /\ Len(result.parts) = call.numParts
    /\ \A i \in 1..Len(result.parts) : result.parts[i].ceil > 0
    /\ SumCeil(result.parts, Len(result.parts)) >= call.total - 1
    /\ SumFloor(result.parts, Len(result.parts)) <= call.total + 1

\* The planning of a destination whose deficit lies strictly between 0 and
\* minChunk has been done.
SmallDeficitPlanned ==
  /\ pc = "called"
  /\ call.fn = "plan"
  /\ call.targetBalance - call.balance > 0
  /\ call.targetBalance - call.balance < minChunkLamports

\* C19: for a deficit strictly between 0 and minChunk the planner plans
\* exactly minChunk and emits exactly one task, of amount minChunk, whatever
\* chunk count was drawn.
C19_SmallDeficitOneMinChunk ==
  SmallDeficitPlanned =>
    /\ result.neededLamports = RENT_EXEMPTION + FEE
    /\ Len(result.chunks) = 1
    /\ result.chunks[1].floor = RENT_EXEMPTION + FEE
    /\ result.chunks[1].ceil = RENT_EXEMPTION + FEE

C19_Witness ==
  /\ SmallDeficitPlanned
  /\ call.targetBalance = 500
  /\ call.balance = 0
  /\ call.drawn = MaxParts
  /\ Len(result.chunks) = 1

\* The first source, in list order, whose balance covers the shortfall d
\* plus fee plus rent reserve (0: none).
FirstCoveringSource(b, d) ==
  IF \E i \in 1..Len(sourceWallets) :
       b[Acct("source", sourceWallets[i])] >= d + FEE + RENT_EXEMPTION
  THEN CHOOSE i \in 1..Len(sourceWallets) :
         /\ b[Acct("source", sourceWallets[i])] >= d + FEE + RENT_EXEMPTION
         /\ \A j \in 1..(i - 1) :
              b[Acct("source", sourceWallets[j])] < d + FEE + RENT_EXEMPTION
  ELSE 0

\* C21: the funding stage has the ledger apply at most one transfer; it comes
\* from the first source whose balance covers shortfall + fee + rent reserve
\* and moves exactly the shortfall into one pool account.  With no such
\* source nothing is sent and the job returns without reaching the shuffle.
OneSourceFundsWholeShortfall ==
  /\ (Len(txLog') = Len(txLog) + 1 /\ Applied.from[1] = "source") =>
       /\ txLog = << >>
       /\ FirstCoveringSource(bal, PoolDeficit) # 0
       /\ Applied.from =
            Acct("source", sourceWallets[FirstCoveringSource(bal, PoolDeficit)])
       /\ Applied.to[1] = "pool"
       /\ Applied.lamports = PoolDeficit
  /\ (pc = "fundScan" /\ FirstCoveringSource(bal, PoolDeficit) = 0) =>
       /\ send' = NoSend
       /\ txLog' = txLog
       /\ pc' \in {"fundScan", "returned"}
  /\ outcome' = "noSourceCovers" =>
       (txLog' = << >> /\ pc' \in {"returned", "exited"})

C21_OneSourceFundsWholeShortfall == [][OneSourceFundsWholeShortfall]_vars

\* C22: the accounts getOrGenerateWallets returns include every persisted
\* pool account, whatever the count asked, and contain a generated account
\* only when fewer than count accounts were persisted.
C22_PersistedPoolsAllReturned ==
  (pc = "called" /\ call.fn = "getOrGenerateWallets") =>
    /\ \A k \in 1..call.persisted :
         \E i \in 1..Len(result.wallets) : result.wallets[i] = k
    /\ (\E i \in 1..Len(result.wallets) : result.wallets[i] > MaxPersisted) =>
         call.persisted < call.count

\* The transfer is what sweepWallet sends from an account holding b[from].
IsFullSweep(b, tx) == tx.lamports = SolOfLamports(b[tx.from] - FEE).floor

\* A pool or peel account holding more than nothing and less than the rent
\* floor.
HoldsDust(b, a) ==
  /\ a[1] \in {"pool", "peel"}
  /\ b[a] > 0
  /\ b[a] < RENT_EXEMPTION

\* C23: a transfer that is not a full sweep leaves neither its sender nor its
\* receiver, when that is a pool or peel account, with a balance strictly
\* between 0 and the rent floor, in whatever stage it is applied.
NoDustUnlessSweep ==
  (Len(txLog') = Len(txLog) + 1 /\ ~IsFullSweep(bal, Applied)) =>
    /\ ~HoldsDust(bal', Applied.from)
    /\ ~HoldsDust(bal', Applied.to)

C23_NoDustUnlessSweep == [][NoDustUnlessSweep]_vars

\* How many cleanup sweeps the ledger has applied.
SweptSoFar ==
  Cardinality({i \in 1..Len(txLog) :
                 StageOf(txLog[i].from, txLog[i].to) = 5})

\* The cleanup loop is looking at a pool account.
CleanupLooksAt(k) ==
  /\ pc = "cleanup"
  /\ cleanupIdx = k
  /\ k <= NumPools

\* C24: in cleanup a pool holding more than 5000 is swept in full (balance
\* minus fee) to the source whose number is the count of pools swept before
\* it modulo the number of sources; a pool holding 5000 or less gets no
\* transfer and does not advance the round-robin index.
SweepsRoundRobin ==
  \A k \in Pools :
    CleanupLooksAt(k) =>
      IF bal[Acct("pool", k)] > 5000
      THEN /\ pc' = "sendSol"
           /\ send'.from = Acct("pool", k)
           /\ send'.to =
                Acct("source",
                     sourceWallets[(SweptSoFar % Len(sourceWallets)) + 1])
           /\ send'.lamports = bal[Acct("pool", k)] - FEE
      ELSE /\ pc' = "cleanup"
           /\ send' = NoSend
           /\ txLog' = txLog
           /\ sourceIndex' = sourceIndex

C24_CleanupSweepsRoundRobin == [][SweepsRoundRobin]_vars

\* C25: the persisted paid set of a mint never loses a destination, through
\* iterations and restarts (also a restart that could not read the state
\* file), and a persist changes no set but that of the loop's own mint.
PaidSetOnlyGrows ==
  \A m \in Mints :
    /\ stateFile[m] \subseteq stateFile'[m]
    /\ m # mintKey => stateFile'[m] = stateFile[m]

C25_PersistedPaidSetNeverShrinks == [][PaidSetOnlyGrows]_vars

\* C26: whatever the iterations, retries, stops and restarts, the network
\* has accepted at most one distribution transfer per mint and destination.
C26_NoDestinationPaidTwice ==
  \A m \in Mints : \A r \in Recipients : paid[m][r] <= 1

InBatch == dpc \in {"send", "attempt"}

\* C27: the pause switch is looked at between iterations only.  While it is
\* set and the loop is between iterations, no iteration starts: nothing is
\* claimed, bought or sent.  Set in the middle of a batch it stops nothing:
\* the loop goes through the remaining recipients one by one and leaves the
\* batch only when none is left.  With the switch off again the loop can
\* start its next iteration.
PauseBetweenIterationsOnly ==
  /\ (dpc = "top" /\ paused) =>
       /\ dpc' \in {"top", "stopped"}
       /\ paid' = paid
       /\ pairs' = pairs
       /\ sendAttempt' = sendAttempt
  /\ (paused /\ InBatch /\ Len(pairs) > 0 /\ dpc' # "stopped") =>
       /\ InBatch'
       /\ pairs' = pairs \/ pairs' = Tail(pairs)
  /\ (dpc = "top" /\ ~paused) =>
       ENABLED (DistLoopTop /\ dpc' = "claim")

PaidTasks(log, t) ==
  Cardinality({i \in 1..Len(log) : log[i].to = Acct("target", t)})

QueuedTasks(queue, t) ==
  Cardinality({i \in 1..Len(queue) : queue[i].targetWallet = t})

\* The second hop of the task under execution has been applied and the task
\* is about to be taken out of the queue.
JustPaid(t) ==
  /\ pc = "hop2Done"
  /\ sig
  /\ pendingTasks[scanIdx].targetWallet = t

WithdrawalStage ==
  \/ pc \in {"scan", "select", "hop1Done", "hop2Done", "delay"}
  \/ pc = "sendSol" /\ send.ret \in {"hop1Done", "hop2Done"}

\* C28: in the withdrawal stage a task leaves the queue exactly when its
\* execution succeeded, and it is the executed task that leaves; every
\* destination's count of tasks paid plus tasks queued stays what the plan
\* made it, so that with the queue empty every planned task has been paid
\* once.  The scan goes down the queue one position at a time, a removal
\* leaves the positions below it alone, a new pass starts only below
\* position 1, and cleanup starts only with the queue empty.  Nothing has been
\* paid when the stage begins.
EachTaskExecutedOnce ==
  /\ (pc = "shuffle" /\ pc' = "scan") =>
       \A t \in Targets : PaidTasks(txLog', t) = 0
  /\ WithdrawalStage =>
      /\ \A t \in Targets :
           PaidTasks(txLog', t) + QueuedTasks(pendingTasks', t)
               - (IF JustPaid(t)' THEN 1 ELSE 0)
             = PaidTasks(txLog, t) + QueuedTasks(pendingTasks, t)
                 - (IF JustPaid(t) THEN 1 ELSE 0)
      /\ IF pc = "hop2Done" /\ sig
         THEN /\ Len(pendingTasks') = Len(pendingTasks) - 1
              /\ \A k \in 1..(scanIdx - 1) : pendingTasks'[k] = pendingTasks[k]
              /\ \A k \in scanIdx..Len(pendingTasks') :
                   pendingTasks'[k] = pendingTasks[k + 1]
              /\ txLog[Len(txLog)].to
                   = Acct("target", pendingTasks[scanIdx].targetWallet)
              /\ txLog[Len(txLog)].from
                   = Acct("peel", pendingTasks[scanIdx].peelWallet)
              /\ scanIdx' = scanIdx
         ELSE pendingTasks' = pendingTasks
      /\ (pc \in {"hop1Done", "hop2Done"} /\ ~sig) => pc' = "returned"
      /\ (pc = "scan" /\ scanIdx >= 1) =>
           \/ pc' = "scan" /\ scanIdx' = scanIdx - 1
           \/ pc' = "select" /\ scanIdx' = scanIdx
      /\ pc = "delay" => (pc' = "scan" /\ scanIdx' = scanIdx - 1)
      /\ (pc = "scan" /\ scanIdx = 0) =>
           IF Len(pendingTasks) = 0 THEN pc' = "cleanup"
           ELSE pc' = "scan" /\ scanIdx' = Len(pendingTasks)
      /\ pc \in {"select", "hop1Done", "hop2Done", "sendSol"} =>
           scanIdx' = scanIdx

C28_EachTaskExecutedOnce == [][EachTaskExecutedOnce]_vars

\* Cleanup has started after four tasks for two destinations were paid.
C28_Witness ==
  /\ pc = "cleanup"
  /\ Len(pendingTasks) = 0
  /\ \A t \in Targets : PaidTasks(txLog, t) = 2

\* The planning loop handles one destination in this step.
PlansOneTarget == pc = "plan" /\ planIdx' = planIdx + 1

\* C29: a destination planned with a positive amount d gets n tasks with
\* 1 <= n <= max(1, floor(d / minChunk)), n <= MAX_WITHDRAW_CHUNKS, and
\* n >= MIN_WITHDRAW_CHUNKS when floor(d / minChunk) >= MIN_WITHDRAW_CHUNKS;
\* the tasks are appended to the queue, and each names the destination and
\* the one peel account the peel map holds for it.
TaskCountInBounds ==
  (PlansOneTarget /\ totalNeeded' > totalNeeded) =>
    LET t == targetWallets[planIdx]
        d == totalNeeded' - totalNeeded
        n == Len(pendingTasks') - Len(pendingTasks)
    IN /\ 1 <= n
       /\ n <= Max(1, d \div minChunkLamports)
       /\ n <= MAX_WITHDRAW_CHUNKS
       /\ d \div minChunkLamports >= MIN_WITHDRAW_CHUNKS =>
            n >= MIN_WITHDRAW_CHUNKS
       /\ SubSeq(pendingTasks', 1, Len(pendingTasks)) = pendingTasks
       /\ peelMap'[t] # 0
       /\ \A i \in (Len(pendingTasks) + 1)..Len(pendingTasks') :
            /\ pendingTasks'[i].targetWallet = t
            /\ pendingTasks'[i].peelWallet = peelMap'[t]

C29_TaskCountInBounds == [][TaskCountInBounds]_vars

\* The plan is over: the destination that needed one minimum chunk has one
\* task although two could be drawn, and the one that needed more than four
\* minimum chunks has MAX_WITHDRAW_CHUNKS tasks, all on its peel account.
C29_Witness ==
  /\ pc = "fund"
  /\ needed[1] = minChunkLamports
  /\ QueuedTasks(pendingTasks, 1) = 1
  /\ needed[2] = 60000
  /\ QueuedTasks(pendingTasks, 2) = MAX_WITHDRAW_CHUNKS
  /\ \A i \in 1..Len(pendingTasks) :
       pendingTasks[i].peelWallet = peelMap[pendingTasks[i].targetWallet]

\* The pools hold, within the dust tolerance, the planned total plus the
\* fee buffer.
PoolsHoldEnough ==
  PoolSum(bal, NumPools) + DUST_TOLERANCE
    >= totalNeeded + DEPOSIT_FEE_BUFFER_LAMPORTS

\* The source scan of the funding stage is under way, or a deposit from a
\* source is being submitted.
DepositUnderWay ==
  \/ pc = "fundScan"
  \/ pc = "sendSol" /\ send.ret = "fundSent"

\* C30: when the pools hold at least totalNeeded + feeBuffer less the dust
\* tolerance, the funding stage goes straight on to the shuffle: no transfer
\* is submitted and no balance changes; a deposit from a source is scanned
\* for or submitted only while the pools hold less than that.
FundingSkippedWhenPoolsHoldEnough ==
  /\ (pc = "fund" /\ PoolsHoldEnough) =>
       /\ pc' = "shuffle"
       /\ bal' = bal
       /\ txLog' = txLog
       /\ send' = send
  /\ DepositUnderWay => ~PoolsHoldEnough
  /\ (pc = "fund" /\ txLog' # txLog) => FALSE

C30_FundingSkippedWhenPoolsHoldEnough ==
  [][FundingSkippedWhenPoolsHoldEnough]_vars

\* The funding stage was skipped on the boundary: the pools hold exactly the
\* required 53900 less the tolerance, and nothing was transferred.
C30_Witness ==
  /\ pc = "shuffle"
  /\ totalNeeded = minChunkLamports
  /\ PoolSum(bal, NumPools) + DUST_TOLERANCE
       = totalNeeded + DEPOSIT_FEE_BUFFER_LAMPORTS
  /\ txLog = << >>
  /\ send = NoSend

SweepAttemptFails ==
  /\ pc = "sendSol"
  /\ send.ret = "cleanupSwept"
  /\ send'.attempt = send.attempt + 1

\* A failed attempt of a sweep leaves the run where it was: in the same
\* sendSol call, on the same pool, not ended.
FailedSweepNotFatal ==
  SweepAttemptFails =>
    /\ pc' = "sendSol"
    /\ outcome' = outcome
    /\ outcome = "running"
    /\ cleanupIdx' = cleanupIdx
    /\ send'.from = send.from
    /\ bal' = bal

\* The run has ended after the cleanup loop went over every pool.
CleanupOver == pc = "exited"

RetryDone ==
  /\ pc = "called"
  /\ call.fn \in {"withRpcRetry", "sendSol"}

\* The cap the claim names: 30 s for reads, 60 s for transfers.
ClaimedCap == IF call.fn = "sendSol" THEN 60000 ELSE 30000

\* However many attempts failed, the call returned a value and no error,
\* after one attempt more than failed, and no wait was longer than the cap.
RetriedWithoutLimit ==
  /\ result.returned
  /\ result.attempts = call.failures + 1
  /\ Len(result.sleeps) = call.failures
  /\ \A k \in 1..Len(result.sleeps) :
       result.sleeps[k] > 0 /\ result.sleeps[k] <= ClaimedCap

\* C32 as claimed: below the cap the waits grow exponentially, each being to
\* the one before as that one is to its own predecessor (in tenths of a
\* second).
C32_BackoffExponentialCapped ==
  RetryDone =>
    /\ RetriedWithoutLimit
    /\ \A k \in 2..(Len(result.sleeps) - 1) :
         result.sleeps[k + 1] < ClaimedCap =>
           /\ result.sleeps[k + 1] > result.sleeps[k]
           /\ (result.sleeps[k + 1] \div 100) * (result.sleeps[k - 1] \div 100)
                = (result.sleeps[k] \div 100) * (result.sleeps[k] \div 100)

\* C32, amended: a failing ledger call is retried without limit and returns
\* no error; the wait before the k-th retry grows linearly, by the first wait
\* (1500 ms for reads, 2000 ms for transfers) each time, until it reaches the
\* cap (30 s for reads from the 20th, 60 s for transfers from the 30th), and
\* never exceeds it.
C32_BackoffLinearCapped ==
  RetryDone =>
    /\ RetriedWithoutLimit
    /\ Len(result.sleeps) >= 1 =>
         result.sleeps[1] = IF call.fn = "sendSol" THEN 2000 ELSE 1500
    /\ \A k \in 1..(Len(result.sleeps) - 1) :
         result.sleeps[k + 1]
           = Min(result.sleeps[k] + result.sleeps[1], ClaimedCap)
    /\ \A k \in 1..Len(result.sleeps) :
         (k >= (IF call.fn = "sendSol" THEN 30 ELSE 20)) =>
           result.sleeps[k] = ClaimedCap

\* A transfer that failed MaxFailures times: the third wait is 6000 ms, the
\* 29th 58000 ms and the last one the cap.
C32_Witness ==
  /\ RetryDone
  /\ call.fn = "sendSol"
  /\ call.failures = MaxFailures
  /\ result.sleeps[3] = 6000
  /\ result.sleeps[29] = 58000
  /\ result.sleeps[MaxFailures] = 60000

\* Transfers applied to the ledger that debit a source account.
SourceDebits ==
  {i \in 1..Len(txLog) : txLog[i].from[1] = "source"}

\* C33: the funding stage makes one sendSol call, and that call applies at
\* most one transfer: no source account is debited twice, and what left the
\* sources is the amount of the call, however its submission attempts ended.
C33_OneCallOneTransfer ==
  /\ Cardinality(SourceDebits) <= 1
  /\ pc = "fundSent" => (sig /\ Cardinality(SourceDebits) = 1)

\* The funding stage is over and the pools hold, within the dust tolerance,
\* the planned total plus the fee buffer.
FundingEndedFunded ==
  (pc = "shuffle" /\ shuffleRound = 0) => PoolsHoldEnough

\* No submission to the ledger has failed in this run.
EveryLedgerCallSucceeded == failuresLeft = MaxSendFailures

\* C34: the funding stage always ends with the pools funded, and in a run
\* whose ledger calls all succeed no task then gives up for want of a
\* qualifying pool.
C34_FundedTasksFindPool ==
  /\ FundingEndedFunded
  /\ EveryLedgerCallSucceeded => outcome # "poolExhausted"

\* C35: a DistributionController never has more than one distribution loop
\* in progress, and a call of start() made while a run is held changes
\* neither the pause flag, the mint, startedAt, lastError, the abort
\* controller, the held run nor the loop, whatever calls of start(),
\* pause(), resume() and stop() came before.
StartWhileActive ==
  /\ runPromise
  /\ calls' = calls + 1
  /\ lastCall' = "start"

StartChangesNothing ==
  StartWhileActive =>
    UNCHANGED <<paused, currentMint, startedAt, lastError, abortController,
                runPromise, loops, loopVars, settling, stopCall>>

C35_OneLoopPerController ==
  /\ [](loops <= 1)
  /\ [][StartChangesNothing]_vars

C35_Witness ==
  /\ lastCall = "start"
  /\ calls >= 3
  /\ runPromise
  /\ loops = 1
  /\ paused
  /\ dpc = "attempt"

\* C36: once stop() is waiting for an active run, the distribution loop
\* eventually ends and stop() returns a status with running = false.
StopAwaitsRun == stopCall.at = "awaiting"

StopReturnedNotRunning == stopCall.at = "returned" /\ ~stopCall.running

C36_StopEndsTheRun == StopAwaitsRun ~> StopReturnedNotRunning

\* C37: the controller's state is consistent: whenever no run is held
\* (running = false) the mint is undefined and no abort controller is
\* retained, also after a start() that throws while resolving the mint or
\* the dev wallet; and when the handlers of a rejected run have finished,
\* running is false and lastError is set.
NotRunningIsClean ==
  ~runPromise => currentMint = 0 /\ abortController = "null"

RejectedRunSettled ==
  settling = "caught" /\ settling' = "none" =>
    ~runPromise' /\ lastError' = RunFailure

C37_ControllerStateConsistent ==
  /\ []NotRunningIsClean
  /\ [][RejectedRunSettled]_vars

\* C38: the token amounts sent in one distribution iteration sum to no
\* more than the amount the iteration's buyback acquired, for every
\* acquired total of at least MIN_DISTRIBUTABLE_TOKENS and every number of
\* selected recipients.
SplitDone == pc = "called" /\ result.fn = "randomSplit"

C38_BatchWithinAcquired ==
  SplitDone => SumOf(result.amounts, Len(result.amounts)) <= call.total

\* C39: a recipient enters the paid set only in the step in which its
\* transaction was submitted successfully (the network has it); a recipient
\* whose third attempt threw, or who was skipped for insufficient SOL, is
\* not added, is not in the paid set afterwards, and the batch goes on with
\* the recipients after it; no send is attempted more than
\* MAX_SEND_RETRIES times.
LoopRuns == dpc # "stopped" /\ dpc' # "stopped"

AddedOnlyWhenSubmitted ==
  LoopRuns /\ sentSet' # sentSet =>
    /\ dpc = "attempt"
    /\ sentSet' = sentSet \cup {Head(pairs)}
    /\ paid'[mintKey][Head(pairs)] = paid[mintKey][Head(pairs)] + 1

SkippedForSol ==
  /\ dpc = "send"
  /\ Len(pairs) > 0
  /\ availableLamports < TotalLamportsNeeded
  /\ LoopRuns
  /\ pairs' # pairs

LastAttemptThrew ==
  /\ dpc = "attempt"
  /\ sendAttempt = MAX_SEND_RETRIES
  /\ LoopRuns
  /\ sendAttempt' # sendAttempt
  /\ paid'[mintKey][Head(pairs)] = paid[mintKey][Head(pairs)]

FailureLeavesEligible ==
  SkippedForSol \/ LastAttemptThrew =>
    /\ Head(pairs) \notin sentSet'
    /\ sentSet' = sentSet
    /\ pairs' = Tail(pairs)
    /\ dpc' = "send"

AttemptsBounded == dpc = "attempt" => sendAttempt \in 1..MAX_SEND_RETRIES

C39_PaidOnlyAfterSubmission ==
  /\ []AttemptsBounded
  /\ [][AddedOnlyWhenSubmitted]_vars
  /\ [][FailureLeavesEligible]_vars

C39_Witness ==
  /\ distRuns = 1
  /\ dpc = "attempt"
  /\ Len(pairs) = 1
  /\ \E r \in Recipients :
       /\ r # Head(pairs)
       /\ r \notin sentSet
       /\ paid[mintKey][r] = MAX_SEND_RETRIES - 1

\* C40: the lamports a buyback is built with are positive and exceed
\* neither the dev wallet's balance read for the spend, nor the vault
\* balance read at the start of the iteration, nor the cap when the cap is
\* above 0; with a computed spend of 0 or less no buyback is built and the
\* iteration ends before the buyback and the distribution.
SpendDone == pc = "called" /\ result.fn = "spend"

BuybackBuilt == SpendDone /\ result.solAmount # NoBuyback

SpendWithinLimits ==
  BuybackBuilt =>
    /\ result.solAmount > 0
    /\ result.solAmount <= call.lamportsBalance
    /\ result.solAmount <= call.vaultLamports
    /\ call.capLamports > 0 => result.solAmount <= call.capLamports

NothingSpentNothingSent ==
  SpendDone /\ result.spendLamports <= 0 =>
    result.solAmount = NoBuyback /\ result.next = "top"

C40_SpendWithinLimits == SpendWithinLimits /\ NothingSpentNothingSent

C40_Witness ==
  /\ BuybackBuilt
  /\ call.capLamports > 0
  /\ result.solAmount = call.capLamports
  /\ call.postClaimBalance - call.preClaimBalance > call.capLamports

====
